---------------------------- MODULE Spec2Model ----------------------------
(***************************************************************************)
(* A model of the generative music engine of src/src/utils/audioEngine.ts: *)
(* the seeded linear-congruential generator, the composer                  *)
(* (generateNewPatterns / generateNextBar), the lookahead scheduler and    *)
(* the facade (start / stop / setSeed / setVolume / ...), together with    *)
(* the parts of the browser the engine relies on: the audio context, its   *)
(* clock, interval and timeout timers, and localStorage.                   *)
(*                                                                         *)
(* Representation.  Every frequency the composer produces is               *)
(* keyRootFreq * 2^(k/12) or 440 * 2^((m-69)/12); the model holds a        *)
(* frequency as its pitch number m (the value Math.round(69 +              *)
(* 12*log2(f/440)) of the source).  A random draw is held as the integer   *)
(* state of the generator: the number the source sees is value/233280.     *)
(* Volumes and gains are held in hundredths, times in microseconds.        *)
(* Envelope parameters of a note (velocity, attack, release, duration) are *)
(* not stored, but every draw that computes them is consumed in order.     *)
(***************************************************************************)
EXTENDS Integers, Sequences, FiniteSets, TLC

(***************************************************************************)
(* Deterministic PRNG (seededRandom)                                       *)
(***************************************************************************)
LcgMultiplier == 9301
LcgIncrement == 49297
LcgModulus == 233280

\* The % operator of the source: the remainder takes the sign of the dividend.
JsRem(a, m) == IF a >= 0 THEN a % m ELSE -((-a) % m)

\* let value = this.currentSeed + seedIncrement
seededRandom(seed, seedIncrement) == seed + seedIncrement

\* (n * 9301) mod 233280 for n >= 0, multiplied in two parts so that no
\* intermediate result leaves 32 bits (the source multiplies in doubles, exactly)
TimesMultiplierMod(n) ==
    ((((n * (LcgMultiplier \div 100)) % LcgModulus) * 100) + n * (LcgMultiplier % 100)) % LcgModulus

\* One call of the closure: value = (value * 9301 + 49297) % 233280, the new
\* internal value (the call returns value/233280).  The sum is negative exactly
\* when value < -5, and the remainder is then negative or zero.
Draw(value) ==
    IF value >= 0 THEN (TimesMultiplierMod(value) + LcgIncrement) % LcgModulus
    ELSE IF value >= -(LcgIncrement \div LcgMultiplier)
         THEN JsRem(value * LcgMultiplier + LcgIncrement, LcgModulus)
         ELSE -((TimesMultiplierMod(-value) - LcgIncrement) % LcgModulus)

RECURSIVE DrawN(_, _)
DrawN(value, n) == IF n = 0 THEN value ELSE DrawN(Draw(value), n - 1)

\* rng() < num/den, for the draw whose internal value is v
Below(v, num, den) == v * den < num * LcgModulus

\* Math.floor(rng() * n)
Pick(v, n) == (v * n) \div LcgModulus

\* the return value of a call lies in [0, 1)
InUnitInterval(v) == 0 <= v /\ v < LcgModulus

(***************************************************************************)
(* Sequence helpers                                                        *)
(***************************************************************************)
Contains(s, x) == \E i \in 1..Len(s) : s[i] = x

RECURSIVE SortedSeq(_)
SortedSeq(S) ==
    IF S = {} THEN <<>>
    ELSE LET m == CHOOSE x \in S : \A y \in S : x <= y
         IN <<m>> \o SortedSeq(S \ {m})

RECURSIVE InsertAsc(_, _)
InsertAsc(s, x) ==
    IF s = <<>> THEN <<x>>
    ELSE IF x < Head(s) THEN <<x>> \o s
    ELSE <<Head(s)>> \o InsertAsc(Tail(s), x)

\* [...a].sort((a, b) => a - b)
RECURSIVE SortAsc(_)
SortAsc(s) == IF s = <<>> THEN <<>> ELSE InsertAsc(SortAsc(Tail(s)), Head(s))

RECURSIVE Reverse(_)
Reverse(s) == IF s = <<>> THEN <<>> ELSE Reverse(Tail(s)) \o <<Head(s)>>

RemoveAt(s, i) == SubSeq(s, 1, i - 1) \o SubSeq(s, i + 1, Len(s))

Range(s) == {s[i] : i \in 1..Len(s)}

\* Array.prototype.find with a test for membership in wanted: the first
\* matching element, as a sequence of length 0 or 1
FindFirst(s, wanted) ==
    LET hits == SelectSeq(s, LAMBDA x : x \in wanted) IN IF hits = <<>> THEN <<>> ELSE <<Head(hits)>>

Abs(x) == IF x < 0 THEN -x ELSE x
Max(a, b) == IF a > b THEN a ELSE b
Min(a, b) == IF a < b THEN a ELSE b

(***************************************************************************)
(* Music theory tables                                                     *)
(***************************************************************************)
progressionTemplates ==
    << <<0, 5, 3, 4>>, <<0, 3, 1, 4>>, <<0, 5, 1, 4>>, <<0, 1, 3, 4>>,
       <<5, 1, 3, 0>>, <<0, 3, 0, 4>>, <<1, 4, 0, 0>>, <<0, 1, 4, 5>>,
       <<0, 4>>, <<0, 3>>, <<0, 5, 1, 3, 0, 5, 1, 4>> >>

chordVoicings ==
    [ triadMaj |-> <<0, 4, 7>>,      triadMin |-> <<0, 3, 7>>,
      maj7     |-> <<0, 4, 7, 11>>,  min7     |-> <<0, 3, 7, 10>>,
      dom7     |-> <<0, 4, 7, 10>>,  maj6     |-> <<0, 4, 7, 9>>,
      min6     |-> <<0, 3, 7, 9>>,   maj9     |-> <<0, 4, 7, 11, 14>>,
      min9     |-> <<0, 3, 7, 10, 14>>, dom9  |-> <<0, 4, 7, 10, 14>>,
      add9     |-> <<0, 4, 7, 14>>,  minAdd9  |-> <<0, 3, 7, 14>>,
      sus4     |-> <<0, 5, 7>>,      dom7sus4 |-> <<0, 5, 7, 10>>,
      maj7no5  |-> <<0, 4, 11>>,     min7no5  |-> <<0, 3, 10>> ]

\* E2, G2, A2, C3, D3, E3, G3 (82.41, 98.00, 110.00, 130.81, 146.83, 164.81, 196.00 Hz)
rootNotes == <<40, 43, 45, 48, 50, 52, 55>>

scales ==
    << <<0, 2, 4, 5, 7, 9, 11>>,   \* Major
       <<0, 2, 3, 5, 7, 8, 10>>,   \* Natural Minor
       <<0, 2, 3, 5, 7, 9, 10>>,   \* Dorian
       <<0, 2, 4, 5, 7, 9, 10>>,   \* Mixolydian
       <<0, 2, 4, 6, 7, 9, 11>>,   \* Lydian
       <<0, 2, 4, 7, 9>>,          \* Pentatonic Major
       <<0, 3, 5, 7, 10>> >>       \* Pentatonic Minor


(***************************************************************************)
(* Composer                                                                *)
(***************************************************************************)
(***************************************************************************)
(* Composer                                                                *)
(***************************************************************************)
\* getChordQualityAndVoicing: two draws from the stream whose state is v.
getChordQualityAndVoicing(scaleDegree, v) ==
    LET quality == IF scaleDegree \in {0, 3} THEN "maj"
                   ELSE IF scaleDegree \in {1, 2, 5} THEN "min"
                   ELSE IF scaleDegree = 4 THEN "dom"
                   ELSE "min"
        d1 == Draw(v)
        d2 == DrawN(v, 2)
        preferSimpleVoicings == Below(d1, 3, 10)
        cv == chordVoicings
        choices ==
            IF quality = "maj" THEN
                IF preferSimpleVoicings
                THEN <<cv.triadMaj, cv.maj6, cv.add9, cv.maj7no5>>
                ELSE <<cv.maj7, cv.maj9, cv.maj6, cv.add9>>
            ELSE IF quality = "min" THEN
                IF preferSimpleVoicings
                THEN <<cv.triadMin, cv.min6, cv.minAdd9, cv.min7no5>>
                ELSE <<cv.min7, cv.min9, cv.min6, cv.minAdd9>>
            ELSE <<cv.dom7, cv.dom9, cv.dom7sus4>>
    IN [r |-> d2, intervals |-> choices[Pick(d2, Len(choices)) + 1]]

\* getNotesInScale: the pitches of the scale from two octaves below to two above
\* the root, kept within C1..C7
getNotesInScale(rootPitch, scaleIntervals) ==
    {n \in {rootPitch + scaleIntervals[i] + 12 * o : i \in 1..Len(scaleIntervals), o \in -2..2} :
        n >= 24 /\ n <= 96}

\* The chord of a scale degree: root pitch, voicing intervals, semitones from the key root
MakeChord(keyRoot, scale, scaleDegree, voicingIntervals) ==
    LET semitoneInKey == scale[(scaleDegree % Len(scale)) + 1]
    IN [ rootFreq |-> keyRoot + semitoneInKey,
         intervals |-> voicingIntervals,
         absoluteSemitones |-> [i \in 1..Len(voicingIntervals) |-> semitoneInKey + voicingIntervals[i]] ]

\* The fields of the engine as the constructor leaves them (field initialisers)
InitialComposer ==
    [ bpm |-> 70, keyRootFreq |-> 57, scale |-> <<>>, currentScaleNotes |-> {},
      progressionTemplate |-> <<>>, progressionIndex |-> 0, currentScaleDegree |-> 0,
      barCount |-> 0, currentChord |-> <<>>,
      currentPadNotes |-> <<>>, prevPadFrequencies |-> <<>>, currentBassNote |-> <<>>,
      currentLeadMelodyNotes |-> <<>>, currentArpNotes |-> <<>>,
      currentAtmosphereNote |-> <<>>, currentElectricPianoNotes |-> <<>>,
      currentFluteNotes |-> <<>>,
      currentDrumPattern |-> [kick |-> <<>>, snare |-> <<>>, hihat |-> <<>>],
      vinylCrackle |-> FALSE ]

\* a variant of the resets that keeps the bar state of the previous run
KeepBarState(c) == c

\* generateNewPatterns, the resets of the bar state: barCount = 0 and
\* prevPadFrequencies = [] (the two step counters it resets with them are
\* variables of the scheduler, reset by the actions that call it)
ResetBarState(c) == [c EXCEPT !.barCount = 0, !.prevPadFrequencies = <<>>]

\* generateNewPatterns: the full re-roll from seed, applied to composer state c.
\* The three draws that follow the tempo draw set the effects bus (filter
\* cutoff, delay time, feedback); they are the last draws of their stream and
\* nothing of the composition reads them, so the effects bus is not held.
\* a variant of the tempo that adds the spread and leaves out the clamp
GeneratedBpmSpreadAdded(v0) ==
    LET bpmCenter == 60 + Pick(DrawN(v0, 4), 20)
        bpmSpread == 5 + Pick(DrawN(v0, 5), 5)
    IN bpmCenter + bpmSpread + Pick(DrawN(v0, 6), bpmSpread * 2 + 1)

\* this.bpm of generateNewPatterns: the fourth, fifth and sixth draws of
\* baseRng, whose state before its first draw is v0
GeneratedBpm(v0) ==
    LET bpmCenter == 60 + Pick(DrawN(v0, 4), 20)
        bpmSpread == 5 + Pick(DrawN(v0, 5), 5)
    IN Max(50, Min(90, bpmCenter - bpmSpread + Pick(DrawN(v0, 6), bpmSpread * 2 + 1)))

GenNew(c, seed) ==
    LET rngSeed == seed
        reset == ResetBarState(c)
        v0 == seededRandom(seed, rngSeed)
        keyRoot == rootNotes[Pick(DrawN(v0, 1), Len(rootNotes)) + 1]
        scale == scales[Pick(DrawN(v0, 2), Len(scales)) + 1]
        template == progressionTemplates[Pick(DrawN(v0, 3), Len(progressionTemplates)) + 1]
        degree == template[1]
        voicing == getChordQualityAndVoicing(degree, seededRandom(seed, rngSeed + reset.barCount + 8))
    IN [reset EXCEPT
          !.keyRootFreq = keyRoot,
          !.scale = scale,
          !.currentScaleNotes = getNotesInScale(keyRoot, scale),
          !.progressionTemplate = template,
          !.progressionIndex = 0,
          !.bpm = GeneratedBpm(v0),
          !.currentScaleDegree = degree,
          !.currentChord = <<MakeChord(keyRoot, scale, degree, voicing.intervals)>>]

\* The number NaN, which is no integer, is held as an integer below every seed
\* that is drawn.
NaN == -1000000

\* With the seed NaN every draw of baseRng is NaN and every table index
\* Math.floor(NaN * n) is NaN: rootNotes[NaN] and scales[NaN] are undefined,
\* and getNotesInScale throws a TypeError at "for (const interval of
\* scaleIntervals)", which generateNewPatterns does not catch.
Throws(seed) == seed = NaN

\* generateNewPatterns up to that exception: keyRootFreq and scale have been
\* assigned undefined (held as NaN, which undefined is in arithmetic, and as
\* the empty scale), nothing else has been written
ThrownPatterns(c) == [c EXCEPT !.keyRootFreq = NaN, !.scale = <<>>]

\* generateNextBar works on a bar in progress b: the composer state c with the
\* fields written so far, the state r of rng, and whether the atmosphere
\* drone was chosen anew.  Each section below reads its rng state from b and
\* leaves the state after its last draw.

\* a variant of the progression step that advances before the first bar too
ProgressionIndexAdvanced(c) == (c.progressionIndex + 1) % Len(c.progressionTemplate)

\* this.progressionIndex of the bar: advanced, wrapping at the end of the
\* template, except for the first bar after generateNewPatterns
NextProgressionIndex(c) ==
    IF c.barCount > 0
    THEN (c.progressionIndex + 1) % Len(c.progressionTemplate)
    ELSE c.progressionIndex

\* The progression step: the next degree of the template (not advanced before
\* the first bar), its voicing and chord
NextChord(c, v) ==
    LET progressionIndex == NextProgressionIndex(c)
        currentScaleDegree == c.progressionTemplate[progressionIndex + 1]
        voicing == getChordQualityAndVoicing(currentScaleDegree, v)
    IN [ c |-> [c EXCEPT
                  !.progressionIndex = progressionIndex,
                  !.currentScaleDegree = currentScaleDegree,
                  !.currentChord = <<MakeChord(c.keyRootFreq, c.scale, currentScaleDegree,
                                               voicing.intervals)>>],
         r |-> voicing.r,
         atmosphereIsNew |-> FALSE ]

\* currentChordMidiNotes: the pitches of the chord that are in the scale
currentChordMidiNotes(c) ==
    SelectSeq([i \in 1..Len(c.currentChord[1].absoluteSemitones) |->
                  c.keyRootFreq + c.currentChord[1].absoluteSemitones[i]],
              LAMBDA m : m \in c.currentScaleNotes)

\* voiceLeadPads: each previous pad pitch takes the closest remaining target (the
\* first one on a tie), unmatched targets are appended, the result is sorted.
ClosestIndex(prevFreq, available) ==
    CHOOSE i \in 1..Len(available) :
        /\ \A j \in 1..Len(available) : Abs(prevFreq - available[i]) <= Abs(prevFreq - available[j])
        /\ \A j \in 1..(i - 1) : Abs(prevFreq - available[j]) > Abs(prevFreq - available[i])

\* a variant of the loop that leaves out the targets no previous pitch took
RECURSIVE LeadLoopMatchedOnly(_, _, _)
LeadLoopMatchedOnly(prev, available, led) ==
    IF prev = <<>> \/ available = <<>> THEN led
    ELSE LET i == ClosestIndex(Head(prev), available)
         IN LeadLoopMatchedOnly(Tail(prev), RemoveAt(available, i), Append(led, available[i]))

RECURSIVE LeadLoop(_, _, _)
LeadLoop(prev, available, led) ==
    IF prev = <<>> \/ available = <<>> THEN led \o available
    ELSE LET i == ClosestIndex(Head(prev), available)
         IN LeadLoop(Tail(prev), RemoveAt(available, i), Append(led, available[i]))

voiceLeadPads(targetChordFreqs, prevChordFreqs) ==
    IF prevChordFreqs = <<>> \/ targetChordFreqs = <<>> THEN targetChordFreqs
    ELSE SortAsc(LeadLoop(prevChordFreqs, targetChordFreqs, <<>>))

\* --- Pad ---: one draw for the octave, three per note (velocity, attack, release)
PadSection(b) ==
    LET chord == b.c.currentChord[1]
        d1 == Draw(b.r)
        baseOctavePad == IF Below(d1, 5, 10) THEN -1 ELSE 0
        padTargetFrequencies ==
            [i \in 1..Len(chord.intervals) |-> chord.rootFreq + chord.intervals[i] + baseOctavePad * 12]
        ledPadFrequencies == voiceLeadPads(padTargetFrequencies, b.c.prevPadFrequencies)
    IN [b EXCEPT
          !.r = DrawN(d1, 3 * Len(ledPadFrequencies)),
          !.c.currentPadNotes = [i \in 1..Len(ledPadFrequencies) |->
                                    [frequency |-> ledPadFrequencies[i], instrument |-> "pad"]],
          !.c.prevPadFrequencies = ledPadFrequencies]

\* --- Bass ---: root or (20%) fifth, one or two octaves down; six draws
BassSection(b) ==
    LET chord == b.c.currentChord[1]
        d1 == Draw(b.r)
        d2 == DrawN(b.r, 2)
        bassTargetFreq ==
            IF Below(d1, 2, 10) /\ Contains(chord.intervals, 7)
            THEN chord.rootFreq + 7
            ELSE chord.rootFreq
        octaveShift == IF Below(d2, 7, 10) THEN -12 ELSE -24
    IN [b EXCEPT
          !.r = DrawN(b.r, 6),
          !.c.currentBassNote = <<[frequency |-> bassTargetFreq + octaveShift, instrument |-> "bass"]>>]

\* The lead melody and the flute share their note-picking loop.  chance0 and
\* chance1 are the chord-tone chances (in hundredths) of the first and the later
\* notes, envelopeDraws the draws between the pick and the target beat.

\* the notes of the instrument are stored, rng is left in state v
StoreMelody(b, instrument, v, notes) ==
    IF instrument = "lead"
    THEN [b EXCEPT !.r = v, !.c.currentLeadMelodyNotes = notes]
    ELSE [b EXCEPT !.r = v, !.c.currentFluteNotes = notes]

\* the uniqueBeats filter: the first note of each target beat is kept
RECURSIVE UniqueBeats(_, _)
UniqueBeats(notes, seen) ==
    IF notes = <<>> THEN <<>>
    ELSE IF Head(notes).targetBeatInBar \in seen THEN UniqueBeats(Tail(notes), seen)
    ELSE <<Head(notes)>> \o UniqueBeats(Tail(notes), seen \cup {Head(notes).targetBeatInBar})

RECURSIVE MelodyLoop(_, _, _, _, _, _, _, _, _, _, _, _, _)
MelodyLoop(i, count, b, v, picked, out, chordTones, harmonious, rangeMidi, chance0, chance1, envelopeDraws, instrument) ==
    IF i = count THEN StoreMelody(b, instrument, v, UniqueBeats(out, {}))
    ELSE
      LET unpickedChordTones == SelectSeq(chordTones, LAMBDA m : ~Contains(picked, m))
          unpickedHarmonious == SelectSeq(harmonious, LAMBDA m : ~Contains(picked, m))
          draws == unpickedChordTones # <<>>
          dChance == IF draws THEN Draw(v) ELSE v
          fallbackOptions == SelectSeq(rangeMidi, LAMBDA m : ~Contains(picked, m))
          noteMidi ==
              IF draws /\ Below(dChance, IF i = 0 THEN chance0 ELSE chance1, 100)
                  THEN unpickedChordTones[1]
              ELSE IF unpickedHarmonious # <<>> THEN unpickedHarmonious[1]
              ELSE IF unpickedChordTones # <<>> THEN unpickedChordTones[1]
              ELSE IF fallbackOptions # <<>> THEN fallbackOptions[1]
              ELSE rangeMidi[1]
          dBeat == DrawN(dChance, envelopeDraws + 1)
          note == [frequency |-> noteMidi, instrument |-> instrument,
                   targetBeatInBar |-> Pick(dBeat, 4)]
      IN MelodyLoop(i + 1, count, b, dBeat, Append(picked, noteMidi), Append(out, note),
                    chordTones, harmonious, rangeMidi, chance0, chance1,
                    envelopeDraws, instrument)

MelodyNotes(count, b, v, chance0, chance1, envelopeDraws, instrument) ==
    LET rangeMidi == SortedSeq({n \in b.c.currentScaleNotes : n >= 60 /\ n <= 84})
        chordTones == SortAsc(SelectSeq(currentChordMidiNotes(b.c), LAMBDA m : Contains(rangeMidi, m)))
        harmonious == SelectSeq(rangeMidi,
                          LAMBDA n : (Abs(n - b.c.currentChord[1].rootFreq) % 12) \notin {6, 1})
    IN IF rangeMidi = <<>> THEN StoreMelody(b, instrument, v, <<>>)
       ELSE MelodyLoop(0, count, b, v, <<>>, <<>>, chordTones, harmonious, rangeMidi,
                       chance0, chance1, envelopeDraws, instrument)

\* --- Lead Melody ---
LeadSection(b) ==
    LET d1 == Draw(b.r)
    IN MelodyNotes(1 + Pick(d1, 3), b, d1, 75, 60, 6, "lead")

\* The comparator () => 0.5 - rng(): one draw, negative when the draw exceeds 0.5
Negative(d) == 2 * d > LcgModulus

\* Array.prototype.sort with that comparator, as the engine's runtime sorts a
\* short array: the initial run is found (and reversed when descending), the
\* rest is inserted by binary insertion; every comparison is one draw.
RECURSIVE RunScan(_, _, _, _, _)
RunScan(n, idx, descending, v, runLength) ==
    IF idx > n THEN [r |-> v, runLength |-> runLength]
    ELSE LET d == Draw(v)
         IN IF (descending /\ ~Negative(d)) \/ (~descending /\ Negative(d))
            THEN [r |-> d, runLength |-> runLength]
            ELSE RunScan(n, idx + 1, descending, d, runLength + 1)

RECURSIVE BinarySearch(_, _, _)
BinarySearch(left, right, v) ==
    IF left >= right THEN [r |-> v, left |-> left]
    ELSE LET mid == left + ((right - left) \div 2)
             d == Draw(v)
         IN IF Negative(d) THEN BinarySearch(left, mid, d)
            ELSE BinarySearch(mid + 1, right, d)

RECURSIVE BinaryInsertionSort(_, _, _)
BinaryInsertionSort(a, start, v) ==
    IF start > Len(a) THEN [r |-> v, seq |-> a]
    ELSE LET found == BinarySearch(1, start, v)
             moved == SubSeq(a, 1, found.left - 1) \o <<a[start]>>
                      \o SubSeq(a, found.left, start - 1) \o SubSeq(a, start + 1, Len(a))
         IN BinaryInsertionSort(moved, start + 1, found.r)

RandomSort(a, v) ==
    IF Len(a) < 2 THEN [r |-> v, seq |-> a]
    ELSE LET d1 == Draw(v)
             descending == Negative(d1)
             run == RunScan(Len(a), 3, descending, d1, 2)
             made == IF descending
                     THEN Reverse(SubSeq(a, 1, run.runLength)) \o SubSeq(a, run.runLength + 1, Len(a))
                     ELSE a
         IN BinaryInsertionSort(made, run.runLength + 1, run.r)

\* Array.prototype.slice(0, n)
Slice(s, n) == SubSeq(s, 1, Min(Len(s), n))

\* --- Arpeggiator ---
FoldIntoRange(m, lo, hi) ==
    LET RECURSIVE Up(_)
        Up(x) == IF x < lo /\ x + 12 <= hi THEN Up(x + 12) ELSE x
        RECURSIVE Down(_)
        Down(x) == IF x > hi /\ x - 12 >= lo THEN Down(x - 12) ELSE x
    IN Down(Up(m))

\* the loop that pushes arpPatternLength notes, cycling through the arranged
\* sequence, one draw (velocity) per note
ArpNotes(b, arranged, arpPatternLength) ==
    [b EXCEPT
       !.r = DrawN(arranged.r, arpPatternLength),
       !.c.currentArpNotes =
           [i \in 1..arpPatternLength |->
               [frequency |-> arranged.seq[((i - 1) % Len(arranged.seq)) + 1],
                instrument |-> "arp",
                target16thStep |-> ((i - 1) * 16) \div arpPatternLength]]]

ArpSection(b) ==
    LET chord == b.c.currentChord[1]
        d1 == Draw(b.r)
        d2 == DrawN(b.r, 2)
        d3 == DrawN(b.r, 3)
        d4 == DrawN(b.r, 4)
        selectedArpPattern == <<"asc", "desc", "upDown", "downUp", "randomChordToneOrder">>[Pick(d1, 5) + 1]
        arpBaseOctaveMidi == IF Below(d2, 5, 10) THEN 0 ELSE 1
        folded == [i \in 1..Len(chord.absoluteSemitones) |->
                      FoldIntoRange(b.c.keyRootFreq + chord.absoluteSemitones[i] + arpBaseOctaveMidi * 12, 48, 84)]
        arpCandidateMidiNotes ==
            SelectSeq(folded, LAMBDA m : m >= 48 /\ m <= 84 /\ m \in b.c.currentScaleNotes)
        shortPattern == Below(d3, 3, 10)
        arpPatternLength == IF shortPattern THEN 4 ELSE IF Below(d4, 7, 10) THEN 8 ELSE 16
        afterLength == IF shortPattern THEN d3 ELSE d4
        uniqueArpNotes == SortedSeq(Range(arpCandidateMidiNotes))
        Middle(s) == IF Len(s) > 2 THEN Reverse(SubSeq(s, 2, Len(s) - 1)) ELSE <<>>
        UpDown(s) == s \o Middle(s)
        finalArpNotesSequence ==
            CASE selectedArpPattern = "asc" -> [r |-> afterLength, seq |-> uniqueArpNotes]
              [] selectedArpPattern = "desc" -> [r |-> afterLength, seq |-> Reverse(uniqueArpNotes)]
              [] selectedArpPattern = "upDown" -> [r |-> afterLength, seq |-> UpDown(uniqueArpNotes)]
              [] selectedArpPattern = "downUp" -> [r |-> afterLength, seq |-> UpDown(Reverse(uniqueArpNotes))]
              [] OTHER -> RandomSort(uniqueArpNotes, afterLength)
    IN IF arpCandidateMidiNotes = <<>> THEN [b EXCEPT !.r = d2, !.c.currentArpNotes = <<>>]
       ELSE ArpNotes(b, finalArpNotesSequence, arpPatternLength)

\* --- Electric Piano ---
\* .sort(() => 0.5 - rng()).slice(0, n) applied to the sorted array: n is drawn
\* after the sort, 2 + Math.floor(rng() * 2) for the fallback notes and
\* rng() < 0.6 ? 3 : 4 for the subset
SortedPrefix(sorted, fallback) ==
    LET d == Draw(sorted.r)
    IN [ r |-> d,
         seq |-> Slice(sorted.seq, IF fallback THEN 2 + Pick(d, 2)
                                   ELSE IF Below(d, 6, 10) THEN 3 ELSE 4) ]

\* the notes of one stab before the subset is taken: the chord tones that are
\* in the scale and in C3..C5, or else a few harmonious scale notes
EpCandidates(b, v) ==
    LET chord == b.c.currentChord[1]
        chordToneMidiNotesInTargetOctave ==
            [i \in 1..Len(chord.intervals) |-> chord.rootFreq - 12 + chord.intervals[i]]
        inScale == SelectSeq(chordToneMidiNotesInTargetOctave,
                             LAMBDA m : m \in b.c.currentScaleNotes /\ m >= 48 /\ m <= 72)
        baseFallbackRange == SortedSeq({n \in b.c.currentScaleNotes : n >= 48 /\ n <= 72})
        harmoniousFallbackForEP ==
            SelectSeq(baseFallbackRange,
                      LAMBDA n : (Abs(n - chord.rootFreq) % 12) \notin {1, 6, 11})
        fallbackFrom == IF harmoniousFallbackForEP # <<>> THEN harmoniousFallbackForEP
                        ELSE baseFallbackRange
    IN IF inScale = <<>> /\ fallbackFrom # <<>>
       THEN SortedPrefix(RandomSort(fallbackFrom, v), TRUE)
       ELSE [r |-> v, seq |-> inScale]

\* "Take a subset if too many notes"
EpSubset(notesToPlayForEP) ==
    LET dLimit == Draw(notesToPlayForEP.r)
    IN IF Len(notesToPlayForEP.seq) > (IF Below(dLimit, 6, 10) THEN 3 ELSE 4)
       THEN SortedPrefix(RandomSort(notesToPlayForEP.seq, dLimit), FALSE)
       ELSE [r |-> dLimit, seq |-> notesToPlayForEP.seq]

\* the chord stab of one beat is pushed: two draws (duration, velocity) per note
EpStab(beat, notesToPlayForEP, notes) ==
    [ r |-> DrawN(notesToPlayForEP.r, 2 * Len(notesToPlayForEP.seq)),
      notes |-> notes \o [i \in 1..Len(notesToPlayForEP.seq) |->
                            [frequency |-> notesToPlayForEP.seq[i], instrument |-> "electricPiano",
                             targetBeatInBar |-> beat]] ]

\* epBeats.forEach
RECURSIVE EpStabs(_, _, _)
EpStabs(epBeats, b, stabs) ==
    IF epBeats = <<>> THEN [b EXCEPT !.r = stabs.r, !.c.currentElectricPianoNotes = stabs.notes]
    ELSE EpStabs(Tail(epBeats), b,
                 EpStab(Head(epBeats), EpSubset(EpCandidates(b, stabs.r)), stabs.notes))

EpSection(b) ==
    LET d0 == Draw(b.r)
        d1 == DrawN(b.r, 2)
        d2 == DrawN(b.r, 3)
        d3 == DrawN(b.r, 4)
        epBeats == (IF Below(d0, 9, 10) THEN <<0>> ELSE <<>>)
                   \o (IF Below(d1, 4, 10) THEN <<1>> ELSE <<>>)
                   \o (IF Below(d2, 4, 10) THEN <<2>> ELSE <<>>)
                   \o (IF Below(d3, 4, 10) THEN <<3>> ELSE <<>>)
    IN IF b.c.currentChord[1].intervals = <<>> THEN [b EXCEPT !.c.currentElectricPianoNotes = <<>>]
       ELSE EpStabs(epBeats, b, [r |-> d3, notes |-> <<>>])

\* --- Flute ---
FluteSection(b) ==
    LET d1 == Draw(b.r)
        d2 == DrawN(b.r, 2)
    IN IF Below(d1, 8, 10)
       THEN MelodyNotes(1 + Pick(d2, 3), b, d2, 70, 50, 2, "flute")
       ELSE StoreMelody(b, "flute", d1, <<>>)

\* --- Atmosphere/Drone ---: re-chosen when barCount is a multiple of a drawn
\* period (2..4) or when there is no drone; otherwise the previous one is kept.
DroneFold(m) ==
    LET RECURSIVE Down(_)
        Down(x) == IF x > 48 /\ x - 12 >= 24 THEN Down(x - 12) ELSE x
        RECURSIVE Up(_)
        Up(x) == IF x < 24 /\ x + 12 <= 48 THEN Up(x + 12) ELSE x
    IN Up(Down(m))

\* potentialDroneMidiNotes.push(m) when the chord has the tone, the folded pitch
\* is in the drone range and the scale, and it is not yet among the notes
PushDrone(potential, scaleNotes, present, m) ==
    IF present /\ m >= 24 /\ m <= 48 /\ m \in scaleNotes /\ ~Contains(potential, m)
    THEN Append(potential, m)
    ELSE potential

\* the drone is taken from the candidates, or else drawn from the scale notes
\* of the drone range
SelectDrone(b, d1, potentialDroneMidiNotes) ==
    LET availableDroneNotes == SortedSeq({n \in b.c.currentScaleNotes : n >= 24 /\ n <= 48})
        dPick == Draw(d1)
    IN IF potentialDroneMidiNotes # <<>>
       THEN [b EXCEPT
               !.r = DrawN(d1, 4),
               !.c.currentAtmosphereNote =
                   <<[frequency |-> potentialDroneMidiNotes[1], instrument |-> "atmosphere"]>>,
               !.atmosphereIsNew = TRUE]
       ELSE IF availableDroneNotes # <<>>
       THEN [b EXCEPT
               !.r = DrawN(dPick, 4),
               !.c.currentAtmosphereNote =
                   <<[frequency |-> availableDroneNotes[Pick(dPick, Len(availableDroneNotes)) + 1],
                      instrument |-> "atmosphere"]>>,
               !.atmosphereIsNew = TRUE]
       ELSE [b EXCEPT !.r = d1, !.c.currentAtmosphereNote = <<>>, !.atmosphereIsNew = TRUE]

AtmosphereSection(b) ==
    LET chord == b.c.currentChord[1]
        scaleNotes == b.c.currentScaleNotes
        d1 == Draw(b.r)
        rechoose == (b.c.barCount % (2 + Pick(d1, 3)) = 0) \/ b.c.currentAtmosphereNote = <<>>
        chordThirdInterval == FindFirst(chord.intervals, {3, 4})
        chordFifthInterval == FindFirst(chord.intervals, {7})
        droneThirdMidi == IF chordThirdInterval # <<>>
                          THEN DroneFold(chord.rootFreq + chordThirdInterval[1])
                          ELSE 0
        potentialDroneMidiNotes ==
            PushDrone(
              PushDrone(
                PushDrone(
                  PushDrone(<<>>, scaleNotes, TRUE, DroneFold(chord.rootFreq)),
                  scaleNotes, chordFifthInterval # <<>>, DroneFold(chord.rootFreq + 7)),
                scaleNotes, chordThirdInterval # <<>>, droneThirdMidi),
              scaleNotes, TRUE, DroneFold(b.c.keyRootFreq))
    IN IF ~rechoose
       THEN [b EXCEPT !.r = d1, !.atmosphereIsNew = FALSE]
       ELSE SelectDrone(b, d1, potentialDroneMidiNotes)

\* --- Drums (16-step pattern) ---: velocities in tenths; index step + 1
Silent16 == [i \in 1..16 |-> 0]

\* a variant in which an array generated before is kept and written over
PatternKept(previous) == IF Len(previous) = 16 THEN previous ELSE Silent16

\* new Array(16).fill(0), assigned in place of the previous array
NewPattern(previous) == Silent16

SetStep(pattern, step, velocity) == [pattern EXCEPT ![step + 1] = velocity]

\* if (rng() < num/den) pattern[steps[Math.floor(rng() * steps.length)]] = velocity
RandomHit(drum, num, den, steps, velocity) ==
    LET d == Draw(drum.r)
        dStep == DrawN(drum.r, 2)
    IN IF Below(d, num, den)
       THEN [r |-> dStep, pattern |-> SetStep(drum.pattern, steps[Pick(dStep, Len(steps)) + 1], velocity)]
       ELSE [r |-> d, pattern |-> drum.pattern]

RECURSIVE HihatEighths(_, _, _)
HihatEighths(i, hihat, v) ==
    IF i >= 16 THEN [r |-> v, pattern |-> hihat]
    ELSE LET d == Draw(v)
         IN HihatEighths(i + 2,
                         IF Below(d, 9, 10)
                         THEN SetStep(hihat, i, IF i % 4 = 0 THEN 8 ELSE 6)
                         ELSE hihat,
                         d)

RECURSIVE HihatSixteenths(_, _)
HihatSixteenths(i, drum) ==
    IF i >= 3 THEN drum
    ELSE HihatSixteenths(i + 1, RandomHit(drum, 4, 10, <<0, 1, 2, 3, 4, 5, 6, 7, 8, 9, 10, 11, 12, 13, 14, 15>>, 5))

\* "Chance for some 16ths", after the eighths
HihatPattern(eighths) ==
    LET d == Draw(eighths.r)
    IN IF Below(d, 5, 10)
       THEN HihatSixteenths(0, [r |-> d, pattern |-> eighths.pattern])
       ELSE [r |-> d, pattern |-> eighths.pattern]

DrumSection(b) ==
    LET d1 == Draw(b.r)
        beat3 == [r |-> d1,
                  pattern |-> IF Below(d1, 7, 10)
                              THEN SetStep(SetStep(NewPattern(b.c.currentDrumPattern.kick), 0, 9), 8, 8)
                              ELSE SetStep(NewPattern(b.c.currentDrumPattern.kick), 0, 9)]
        kick == RandomHit(RandomHit(beat3, 2, 10, <<4, 8>>, 7),
                          35, 100, <<2, 3, 6, 7, 10, 11, 13, 14>>, 6)
        snare == RandomHit([r |-> kick.r, pattern |-> SetStep(SetStep(NewPattern(b.c.currentDrumPattern.snare), 4, 9), 12, 9)],
                           15, 100, <<7, 15>>, 5)
        hihat == HihatPattern(HihatEighths(0, NewPattern(b.c.currentDrumPattern.hihat), snare.r))
    IN [b EXCEPT
          !.r = hihat.r,
          !.c.currentDrumPattern =
              [kick |-> kick.pattern, snare |-> snare.pattern, hihat |-> hihat.pattern]]

\* this.vinylCrackle = rng() < 0.5; this.barCount++
EndBar(b) ==
    LET dCrackle == Draw(b.r)
    IN [b EXCEPT !.r = dCrackle, !.c.vinylCrackle = Below(dCrackle, 5, 10), !.c.barCount = @ + 1]

\* generateNextBar(rng) on composer state c; v is the state of rng on entry.
\* Yields the new composer state, the state of rng on return, and whether the
\* atmosphere drone was chosen anew in this bar.
GenBar(c, v) ==
    EndBar(DrumSection(AtmosphereSection(FluteSection(EpSection(ArpSection(
        LeadSection(BassSection(PadSection(NextChord(c, v))))))))))


(***************************************************************************)
(* localStorage: the item is a string, held as a sequence of characters.   *)
(* A volume is written with Number.prototype.toString and read back with   *)
(* parseFloat; both are modelled on numbers held in hundredths.            *)
(***************************************************************************)
Digits == <<"0", "1", "2", "3", "4", "5", "6", "7", "8", "9">>

IsDigit(ch) == \E d \in 1..10 : Digits[d] = ch

DigitValue(ch) == (CHOOSE d \in 1..10 : Digits[d] = ch) - 1

RECURSIVE IntegerDigits(_)
IntegerDigits(n) ==
    IF n < 10 THEN <<Digits[n + 1]>>
    ELSE Append(IntegerDigits(n \div 10), Digits[(n % 10) + 1])

\* a variant of toString that writes the whole part only
toStringWhole(hundredths) == IntegerDigits(Abs(hundredths) \div 100)

\* this.currentVolume.toString(): the shortest decimal form, no trailing zeros
toString(hundredths) ==
    LET magnitude == Abs(hundredths)
        fraction == magnitude % 100
    IN (IF hundredths < 0 THEN <<"-">> ELSE <<>>)
       \o IntegerDigits(magnitude \div 100)
       \o (IF fraction = 0 THEN <<>>
           ELSE IF fraction % 10 = 0 THEN <<".", Digits[(fraction \div 10) + 1]>>
           ELSE <<".", Digits[(fraction \div 10) + 1], Digits[(fraction % 10) + 1]>>)

RECURSIVE SkipSpaces(_)
SkipSpaces(str) == IF str # <<>> /\ Head(str) = " " THEN SkipSpaces(Tail(str)) ELSE str

RECURSIVE DigitPrefixLen(_)
DigitPrefixLen(str) ==
    IF str # <<>> /\ IsDigit(Head(str)) THEN 1 + DigitPrefixLen(Tail(str)) ELSE 0

RECURSIVE DecimalValue(_, _)
DecimalValue(digits, acc) ==
    IF digits = <<>> THEN acc
    ELSE DecimalValue(Tail(digits), acc * 10 + DigitValue(Head(digits)))

\* parseFloat(storedVolume): leading blanks, a sign, digits, a point, digits;
\* whatever follows is ignored; no digit at all gives NaN, here <<>>.  The
\* result is <<value in hundredths>> (the stored strings of this model have at
\* most two decimals).

\* the digits, the point and the digits at the head of unsigned; intLen is the
\* length of its integer part
StrUnsignedDecimalLiteral(unsigned, intLen) ==
    LET rest == SubSeq(unsigned, intLen + 1, Len(unsigned))
        fractionDigits ==
            IF rest # <<>> /\ Head(rest) = "."
            THEN SubSeq(rest, 2, 1 + DigitPrefixLen(Tail(rest)))
            ELSE <<>>
        tenths == IF Len(fractionDigits) >= 1 THEN DigitValue(fractionDigits[1]) ELSE 0
        hundredths == IF Len(fractionDigits) >= 2 THEN DigitValue(fractionDigits[2]) ELSE 0
    IN IF intLen = 0 /\ fractionDigits = <<>> THEN <<>>
       ELSE <<DecimalValue(SubSeq(unsigned, 1, intLen), 0) * 100 + tenths * 10 + hundredths>>

\* the sign applied to the number parsed after it
Signed(negative, parsed) == IF negative /\ parsed # <<>> THEN <<-parsed[1]>> ELSE parsed

StrDecimalLiteral(trimmed) ==
    LET signed == trimmed # <<>> /\ Head(trimmed) \in {"-", "+"}
        unsigned == IF signed THEN Tail(trimmed) ELSE trimmed
    IN Signed(signed /\ Head(trimmed) = "-",
              StrUnsignedDecimalLiteral(unsigned, DigitPrefixLen(unsigned)))

parseFloat(str) == StrDecimalLiteral(SkipSpaces(str))

\* constructor: the stored volume is taken when it parses to a number in
\* [0, 1], the default 0.35 otherwise.  An absent item is <<>>, a present one
\* <<string>>.
DefaultVolume == 35

\* !isNaN(parsedVolume) && parsedVolume >= 0 && parsedVolume <= 1
StoredVolumeOrDefault(parsedVolume) ==
    IF parsedVolume # <<>> /\ parsedVolume[1] >= 0 /\ parsedVolume[1] <= 100
    THEN parsedVolume[1]
    ELSE DefaultVolume

LoadedVolume(item) ==
    IF item # <<>> THEN StoredVolumeOrDefault(parseFloat(item[1])) ELSE DefaultVolume

\* a variant of the clamp with no upper limit
ClampBelowOnly(volume) == Max(0, volume)

\* Math.max(0, Math.min(1, volume))
ClampVolume(volume) == Max(0, Min(100, volume))

\* Math.max(50, Math.min(100, bpm))
ClampBPM(bpm) == Max(50, Min(100, bpm))

(***************************************************************************)
(* Engine constants and model bounds                                       *)
(***************************************************************************)
\* private intervalId: number | null = null; null is 0, timer ids are 1, 2, ...
NullId == 0
\* dry and wet mix, in hundredths
DryMix == 65
WetMix == 35
\* private lookahead = 0.1 and nextNoteTime = currentTime + 0.1, in microseconds
Lookahead == 100000
StartDelay == 100000
\* (this.current16thStepInBar + 1) % 16
StepsPerBar == 16

\* The audio clock advances by ClockQuantum microseconds up to MaxClock; where
\* whole bars are played, by PlayQuantum up to MaxPlayClock.
ClockQuantum == 500000
MaxClock == 1000000
PlayQuantum == 2000000
MaxPlayClock == 10000000
\* start() calls that may be suspended at "await audioContext.resume()" at once
MaxWaiters == 2
\* setTimeout(() => this.start(), 50) callbacks that may be pending at once
MaxRestarts == 1
\* seeds and calls explored for a PRNG stream on its own
MaxRngSeed == 12
MaxRngCalls == 4

\* Date.now() % 100000 at construction and the arguments of setSeed.  Seed 5
\* gives 80 bpm and seed 33 gives 75 bpm, so a sixteenth is a whole number of
\* microseconds.
SeedChoices == {5, 33}
\* arguments of setVolume, in hundredths: below, inside and above [0, 1]
VolumeInputs == {-20, 50, 150}
\* arguments of setBPM: below and at the top of [50, 100]
BpmInputs == {40, 100}
\* what a first session may find under 'audioEngineVolume': nothing, a string
\* that is not a number, numbers outside [0, 1], a number inside
UnusableItems == { <<>>, << <<"l", "o", "u", "d">> >>, << <<"1", ".", "5">> >>, << <<"-", "0", ".", "2">> >> }
UsableItems == { << <<"0", ".", "8">> >> }
InitialItems == UnusableItems \cup UsableItems

\* const secondsPer16thNote = (60.0 / this.bpm) / 4.0, in microseconds (exact
\* for the tempos of this model: 50, 75, 80 and 100 bpm)
secondsPer16thNote(bpm) == 15000000 \div bpm

VARIABLES
    isPlaying,              \* AudioEngine.isPlaying
    intervalId,             \* AudioEngine.intervalId
    currentVolume,          \* AudioEngine.currentVolume, hundredths
    currentSeed,            \* AudioEngine.currentSeed
    mainGain,               \* mainGainNode.gain.value, hundredths
    dryGain,                \* dryGain.gain.value
    wetGain,                \* wetGain.gain.value
    nextNoteTime,           \* AudioEngine.nextNoteTime, microseconds
    currentGlobal16thStep,  \* AudioEngine.currentGlobal16thStep
    current16thStepInBar,   \* AudioEngine.current16thStepInBar
    composer,               \* the composition fields of the engine (InitialComposer)
    contextState,           \* audioContext.state
    currentTime,            \* audioContext.currentTime, microseconds
    intervals,              \* ids of the scheduler callbacks setInterval has registered
    resumePending,          \* start() calls suspended at await audioContext.resume()
    restartPending,         \* pending setTimeout(() => this.start(), 50) callbacks
    storage,                \* localStorage item 'audioEngineVolume': <<>> or <<string>>
    lastStep,               \* history: "scheduler" after a timer callback, "rejection" after
                            \* start() was rejected, "reseed" after setSeed stopped a
                            \* playing engine, "exception" after a call that threw,
                            \* "other" after any other step
    stopped,                \* history: stop() has returned and start() has not run since
    dispatched,             \* history: the steps the last scheduler callback dispatched
    requested,              \* history: the last setVolume of this session and what followed it
    written,                \* history: the last volume any session wrote to storage
    generated,              \* history: outputs since the last generateNewPatterns
    twin,                   \* history: a fresh engine given the same seed and calls
    quiet,                  \* history: stop() or cleanup() has returned and neither start()
                            \* nor setSeed() has been called since
    reverbNode,             \* the convolver createReverb made, or "null"
    connections,            \* the connect() calls made: pairs <<from, to>> of audio nodes
    rngValue,               \* a PRNG stream on its own: its internal value
    rngCalls,               \* a PRNG stream on its own: calls made so far
    padTargets,             \* voiceLeadPads on its own: targetChordFreqs
    padPrevious,            \* voiceLeadPads on its own: prevChordFreqs
    padLed                  \* voiceLeadPads on its own: <<>> or <<the list returned>>

engineVars ==
    <<isPlaying, intervalId, currentVolume, currentSeed, mainGain, dryGain, wetGain,
      nextNoteTime, currentGlobal16thStep, current16thStepInBar, composer>>

browserVars == <<contextState, currentTime, intervals, resumePending, restartPending, storage>>

historyVars == <<lastStep, stopped, dispatched, requested, written, generated, twin, quiet>>

rngVars == <<rngValue, rngCalls>>

graphVars == <<reverbNode, connections>>

padVars == <<padTargets, padPrevious, padLed>>

vars == <<engineVars, browserVars, historyVars, rngVars, graphVars, padVars>>

\* what a generation call puts out: generateNewPatterns gives key root, scale,
\* tempo and the primed chord; generateNextBar gives the bar's chord and drums
Produced(kind, c) ==
    [ kind |-> kind,
      keyRootFreq |-> c.keyRootFreq,
      scale |-> c.scale,
      bpm |-> IF kind = "patterns" THEN c.bpm ELSE 0,
      chordRoot |-> c.currentChord[1].rootFreq,
      voicing |-> c.currentChord[1].intervals,
      drums |-> IF kind = "bar" THEN c.currentDrumPattern ELSE InitialComposer.currentDrumPattern ]

\* The twin is a second engine, newly constructed and given the seed, that
\* makes the same generation calls; c is the composer state a call leaves it in.
TwinStep(t, kind, c) ==
    [t EXCEPT !.c = c, !.generated = Append(t.generated, Produced(kind, c))]

\* The twin after generateNewPatterns.  used records whether the real engine
\* had generated anything before this call.
TwinPatterns(seed, used) ==
    TwinStep([seed |-> seed, c |-> InitialComposer, generated |-> <<>>, used |-> used],
             "patterns", GenNew(InitialComposer, seed))

\* The twin after one more generateNextBar, seeded as scheduleNextNotes seeds it.
TwinBar(t) ==
    TwinStep(t, "bar", GenBar(t.c, seededRandom(t.seed, t.c.barCount + 0)).c)

HasGenerated == generated # <<>>

\* requested is <<>> or <<[volume, since]>>: the argument of the last
\* setVolume and how far the sequence setVolume; stop(); start() has got
\* since: "set", then "stopped", then "restarted".
Cycle(request, from, to) ==
    IF request # <<>> /\ request[1].since = from
    THEN <<[request[1] EXCEPT !.since = to]>>
    ELSE request

(***************************************************************************)
(* The lookahead scheduler                                                 *)
(***************************************************************************)
\* this.currentDrumPattern.kick[current16th]: undefined, hence not > 0, when
\* the pattern has not been generated
VelocityAt(pattern, current16th) ==
    IF current16th + 1 \in DOMAIN pattern THEN pattern[current16th + 1] ELSE 0

\* what scheduleNote is given to play
NotePlayed(note) == [frequency |-> note.frequency, instrument |-> note.instrument]

Played(notes) == [i \in 1..Len(notes) |-> NotePlayed(notes[i])]

\* where the sources the scheduler creates are connected: the gain node of a
\* note, the output node of a drum hit, the gain node of the vinyl crackle
NoteOutput == "mainGainNode"
DrumOutput == "mainGainNode"
CrackleOutput == "destination"

\* a variant of the test below that takes the quarter beat for the step
OnQuarterBeatUnscaled(note, current16th) == note.targetBeatInBar = current16th

\* note.targetBeatInBar * 4 === current16th: the note's quarter beat is this step
OnQuarterBeat(note, current16th) == note.targetBeatInBar * 4 = current16th

\* scheduleNextNotes(current16th) at time = nextNoteTime: the composer state
\* it leaves and the synthesizer calls it makes, in the order it makes them.

\* the part after "if (current16th === 0) this.generateNextBar(rng)": bar holds
\* the composer state and the state of rng at that point
ScheduleStep(bar, current16th, time) ==
    LET after == bar.c
        atmosphereTested == current16th = 0 /\ after.currentAtmosphereNote # <<>>
        dAtmosphere == Draw(bar.r)
        atmospherePlays == atmosphereTested /\ after.barCount % (2 + Pick(dAtmosphere, 3)) = 1
        afterAtmosphere == IF atmosphereTested THEN dAtmosphere ELSE bar.r
        barNotes ==
            IF current16th = 0
            THEN Played(after.currentPadNotes) \o Played(after.currentBassNote)
                 \o (IF atmospherePlays THEN Played(after.currentAtmosphereNote) ELSE <<>>)
            ELSE <<>>
        leadNotes == SelectSeq(after.currentLeadMelodyNotes, LAMBDA n : OnQuarterBeat(n, current16th))
        arpNotes == SelectSeq(after.currentArpNotes, LAMBDA n : n.target16thStep = current16th)
        epNotes == SelectSeq(after.currentElectricPianoNotes, LAMBDA n : OnQuarterBeat(n, current16th))
        fluteNotes == SelectSeq(after.currentFluteNotes, LAMBDA n : OnQuarterBeat(n, current16th))
        kickVel == VelocityAt(after.currentDrumPattern.kick, current16th)
        snareVel == VelocityAt(after.currentDrumPattern.snare, current16th)
        hihatVel == VelocityAt(after.currentDrumPattern.hihat, current16th)
        swingTested == current16th \in {2, 6, 10, 14} /\ hihatVel > 0
        dSwing == Draw(afterAtmosphere)
        swung == swingTested /\ Below(dSwing, 6, 10)
        dSwingAmount == Draw(dSwing)
        afterSwing == IF swung THEN dSwingAmount ELSE IF swingTested THEN dSwing ELSE afterAtmosphere
        crackleTested == after.vinylCrackle /\ current16th = 0
        dCrackle == Draw(afterSwing)
    IN [ composer |-> after,
         event |->
           [ step |-> current16th,
             time |-> time,
             generatedBar |-> current16th = 0,
             atmosphereIsNew |-> current16th = 0 /\ bar.atmosphereIsNew
                                 /\ after.currentAtmosphereNote # <<>>,
             notes |-> barNotes \o Played(leadNotes) \o Played(arpNotes)
                       \o Played(epNotes) \o Played(fluteNotes),
             drums |-> (IF kickVel > 0 THEN <<[type |-> "kick", velocity |-> kickVel, swing |-> <<>>]>> ELSE <<>>)
                       \o (IF snareVel > 0 THEN <<[type |-> "snare", velocity |-> snareVel, swing |-> <<>>]>> ELSE <<>>)
                       \o (IF hihatVel > 0
                           THEN <<[type |-> "hihat", velocity |-> hihatVel,
                                   swing |-> IF swung THEN <<dSwingAmount>> ELSE <<>>]>>
                           ELSE <<>>),
             crackle |-> crackleTested /\ Below(dCrackle, 1, 10),
             outputs |-> (IF barNotes \o leadNotes \o arpNotes \o epNotes \o fluteNotes # <<>>
                          THEN {NoteOutput} ELSE {})
                         \cup (IF kickVel > 0 \/ snareVel > 0 \/ hihatVel > 0
                               THEN {DrumOutput} ELSE {})
                         \cup (IF crackleTested /\ Below(dCrackle, 1, 10)
                               THEN {CrackleOutput} ELSE {}) ] ]

scheduleNextNotes(c, seed, current16th, time) ==
    ScheduleStep(IF current16th = 0
                 THEN GenBar(c, seededRandom(seed, c.barCount + current16th))
                 ELSE [c |-> c, r |-> seededRandom(seed, c.barCount + current16th),
                       atmosphereIsNew |-> FALSE],
                 current16th, time)

\* a variant of the loop condition that leaves out the isPlaying test
SchedulerContinuesWhenStopped(noteTime, now, playing) == noteTime < now + Lookahead

\* a variant of the loop condition that takes in the end of the window
SchedulerContinuesToWindowEnd(noteTime, now, playing) == noteTime <= now + Lookahead /\ playing

\* a variant of the loop condition that looks no further than the clock
SchedulerContinuesWithoutLookahead(noteTime, now, playing) == noteTime < now /\ playing

\* the loop condition of scheduler()
SchedulerContinues(noteTime, now, playing) == noteTime < now + Lookahead /\ playing

\* a variant of advanceNote() whose step in the bar does not wrap
advanceNoteUnwrapped(s, scheduled) ==
    [ composer |-> scheduled.composer,
      nextNoteTime |-> s.nextNoteTime + secondsPer16thNote(scheduled.composer.bpm),
      currentGlobal16thStep |-> s.currentGlobal16thStep + 1,
      current16thStepInBar |-> s.current16thStepInBar + 1,
      dispatched |-> Append(s.dispatched, scheduled.event),
      generated |-> IF s.current16thStepInBar = 0
                    THEN Append(s.generated, Produced("bar", scheduled.composer))
                    ELSE s.generated,
      twin |-> IF s.current16thStepInBar = 0 THEN TwinBar(s.twin) ELSE s.twin ]

\* advanceNote() after scheduleNextNotes: the clock moves on one 16th step;
\* scheduled is what scheduleNextNotes returned
advanceNote(s, scheduled) ==
    [ composer |-> scheduled.composer,
      nextNoteTime |-> s.nextNoteTime + secondsPer16thNote(scheduled.composer.bpm),
      currentGlobal16thStep |-> s.currentGlobal16thStep + 1,
      current16thStepInBar |-> (s.current16thStepInBar + 1) % StepsPerBar,
      dispatched |-> Append(s.dispatched, scheduled.event),
      generated |-> IF s.current16thStepInBar = 0
                    THEN Append(s.generated, Produced("bar", scheduled.composer))
                    ELSE s.generated,
      twin |-> IF s.current16thStepInBar = 0 THEN TwinBar(s.twin) ELSE s.twin ]

\* scheduler(): while the next step falls inside the lookahead window and the
\* engine is playing, scheduleNextNotes then advanceNote.  s holds the fields
\* the loop reads and writes.
RECURSIVE scheduler(_, _, _, _)
scheduler(s, seed, now, playing) ==
    IF SchedulerContinues(s.nextNoteTime, now, playing)
    THEN scheduler(advanceNote(s, scheduleNextNotes(s.composer, seed, s.current16thStepInBar,
                                                    s.nextNoteTime)),
                   seed, now, playing)
    ELSE s

\* window.setInterval: the id of the new timer, the least one not in use
FreshId(ids) == CHOOSE id \in 1..(Cardinality(ids) + 1) : id \notin ids

\* audioContext.state, as far as the engine tells the states apart
ContextStates == {"suspended", "running"}

(***************************************************************************)
(* Construction                                                            *)
(***************************************************************************)
\* constructor(): the fields of a new engine, given Date.now() % 100000 and
\* the volume loaded from the stored item
NewEngine(seed, volume) ==
    [ isPlaying |-> FALSE,
      intervalId |-> NullId,
      currentVolume |-> volume,
      currentSeed |-> seed,
      mainGain |-> volume,
      dryGain |-> DryMix,
      wetGain |-> WetMix,
      nextNoteTime |-> 0,
      currentGlobal16thStep |-> 0,
      current16thStepInBar |-> 0,
      composer |-> InitialComposer ]

\* whether the try block of createReverb() throws
ReverbFailures == BOOLEAN

\* createReverb(): the convolver, or null when its construction threw
createReverb(fails) == IF fails THEN "null" ELSE "ConvolverNode"

\* the connections the constructor makes before the reverb is there
ConstructorConnections ==
    { <<"mainGainNode", "lowpassFilter">>,
      <<"lowpassFilter", "reverbSendGain">>,
      <<"lowpassFilter", "dryGain">>,
      <<"dryGain", "destination">>,
      <<"lowpassFilter", "delayNode">>,
      <<"delayNode", "delayFilterNode">>,
      <<"delayFilterNode", "feedbackNode">>,
      <<"feedbackNode", "delayNode">> }

\* a variant of the wiring below that connects the wet path only to a reverb
ReverbConnectionsWithoutFallback(node) ==
    IF node # "null"
    THEN { <<"delayFilterNode", "reverbNode">>,
           <<"reverbSendGain", "reverbNode">>,
           <<"reverbNode", "wetGain">>,
           <<"wetGain", "destination">> }
    ELSE {}

\* the connections made once createReverb() has settled
ReverbConnections(node) ==
    IF node # "null"
    THEN { <<"delayFilterNode", "reverbNode">>,
           <<"reverbSendGain", "reverbNode">>,
           <<"reverbNode", "wetGain">>,
           <<"wetGain", "destination">> }
    ELSE { <<"delayFilterNode", "wetGain">>,
           <<"reverbSendGain", "wetGain">>,
           <<"wetGain", "destination">> }

NoTwin == [ seed |-> 0, c |-> InitialComposer, generated |-> <<>>, used |-> FALSE ]

\* A page load: the module constructs the engine; no timer, no pending call.
PageLoad(seed, item, state, fails) ==
    \E e \in {NewEngine(seed, LoadedVolume(item))} :
       /\ isPlaying = e.isPlaying
       /\ intervalId = e.intervalId
       /\ currentVolume = e.currentVolume
       /\ currentSeed = e.currentSeed
       /\ mainGain = e.mainGain
       /\ dryGain = e.dryGain
       /\ wetGain = e.wetGain
       /\ nextNoteTime = e.nextNoteTime
       /\ currentGlobal16thStep = e.currentGlobal16thStep
       /\ current16thStepInBar = e.current16thStepInBar
       /\ composer = e.composer
       /\ contextState = state
       /\ currentTime = 0
       /\ intervals = {}
       /\ resumePending = 0
       /\ restartPending = 0
       /\ storage = item
       /\ lastStep = "other"
       /\ stopped = FALSE
       /\ dispatched = <<>>
       /\ requested = <<>>
       /\ written = <<>>
       /\ generated = <<>>
       /\ twin = NoTwin
       /\ quiet = FALSE
       /\ reverbNode = createReverb(fails)
       /\ connections = ConstructorConnections \cup ReverbConnections(createReverb(fails))

\* The first page load of a browser profile.
FirstLoad(seeds, items, states, failures) ==
    /\ \E seed \in seeds, item \in items, state \in states, fails \in failures :
          PageLoad(seed, item, state, fails)
    /\ rngValue = 0
    /\ rngCalls = 0
    /\ padTargets = <<>>
    /\ padPrevious = <<>>
    /\ padLed = <<>>

(***************************************************************************)
(* start(), stop(), cleanup()                                              *)
(***************************************************************************)
\* the ids of k timers registered one after the other
RECURSIVE Registered(_, _)
Registered(ids, k) == IF k = 0 THEN ids ELSE Registered(ids \cup {FreshId(ids)}, k - 1)

\* a variant of start() that leaves the master gain as stop() set it
MasterGainKeptAtStart == mainGain

\* start(): this.mainGainNode.gain.value = this.currentVolume
MasterGainAtStart == currentVolume

\* start() from "Restore gain levels" to its end, run by k calls back to back
\* (k = 1 for a call that did not wait; the calls that waited for resume() are
\* continued together when the context starts).  Each run restores the gains,
\* resets the clock, re-rolls the patterns and registers a timer; intervalId
\* keeps the last id.  Where generateNewPatterns throws, the run ends there,
\* with isPlaying set and no timer registered, and start()'s promise rejects.
StartBody(k) ==
    /\ mainGain' = MasterGainAtStart
    /\ dryGain' = DryMix
    /\ wetGain' = WetMix
    /\ isPlaying' = TRUE
    /\ currentGlobal16thStep' = 0
    /\ current16thStepInBar' = 0
    /\ nextNoteTime' = currentTime + StartDelay
    /\ IF Throws(currentSeed)
       THEN /\ composer' = ThrownPatterns(composer)
            /\ UNCHANGED <<intervalId, intervals, generated, twin>>
       ELSE /\ composer' = GenNew(composer, currentSeed)
            /\ intervalId' = FreshId(Registered(intervals, k - 1))
            /\ intervals' = Registered(intervals, k)
            /\ generated' = <<Produced("patterns", composer')>>
            /\ twin' = TwinPatterns(currentSeed, HasGenerated \/ k > 1)
    /\ stopped' = FALSE
    /\ requested' = Cycle(requested, "stopped", "restarted")
    /\ UNCHANGED <<currentVolume, currentSeed>>

\* a variant of the suspended start() that sets isPlaying before it waits
AwaitResumeMarkedPlaying ==
    /\ resumePending < MaxWaiters
    /\ resumePending' = resumePending + 1
    /\ isPlaying' = TRUE
    /\ UNCHANGED <<intervalId, currentVolume, currentSeed, mainGain, dryGain, wetGain, nextNoteTime,
                   currentGlobal16thStep, current16thStepInBar, composer, intervals, generated,
                   twin, stopped, requested>>

\* start() with the context suspended: the call waits at
\* "await audioContext.resume()", having changed nothing.
AwaitResume ==
    /\ resumePending < MaxWaiters
    /\ resumePending' = resumePending + 1
    /\ UNCHANGED <<engineVars, intervals, generated, twin, stopped, requested>>

\* a call of start(), up to its first await
StartCall ==
    /\ IF isPlaying
       THEN UNCHANGED <<engineVars, intervals, resumePending, generated, twin, stopped, requested>>
       ELSE IF contextState = "suspended"
            THEN AwaitResume
            ELSE /\ StartBody(1)
                 /\ UNCHANGED resumePending
    /\ lastStep' = "other"
    /\ dispatched' = <<>>
    /\ UNCHANGED <<contextState, currentTime, storage, written, rngVars, graphVars, padVars>>

Start == StartCall /\ UNCHANGED restartPending /\ quiet' = FALSE

\* The context starts: state becomes running and every pending resume()
\* promise is resolved, so every waiting start() runs its remainder.
ResumeResolved ==
    /\ resumePending > 0
    /\ contextState' = "running"
    /\ StartBody(resumePending)
    /\ resumePending' = 0
    /\ lastStep' = "other"
    /\ dispatched' = <<>>
    /\ UNCHANGED <<currentTime, restartPending, storage, written, rngVars, graphVars, padVars, quiet>>

\* The context cannot start: the pending resume() promises are rejected, the
\* await throws and every waiting start() returns a rejected promise.
ResumeRejected ==
    /\ resumePending > 0
    /\ contextState = "suspended"
    /\ resumePending' = 0
    /\ lastStep' = "rejection"
    /\ dispatched' = <<>>
    /\ UNCHANGED <<engineVars, contextState, currentTime, intervals, restartPending, storage,
                   stopped, requested, written, generated, twin, rngVars, graphVars, padVars, quiet>>

\* stop() past its guard: the flag, clearInterval(intervalId), the three gains
StopBody ==
    /\ isPlaying' = FALSE
    /\ intervals' = IF intervalId # NullId THEN intervals \ {intervalId} ELSE intervals
    /\ intervalId' = NullId
    /\ mainGain' = 0
    /\ dryGain' = 0
    /\ wetGain' = 0
    /\ stopped' = TRUE
    /\ requested' = Cycle(requested, "set", "stopped")
    /\ UNCHANGED <<currentVolume, nextNoteTime, currentGlobal16thStep, current16thStepInBar, composer>>

StopCall ==
    /\ IF isPlaying
       THEN StopBody
       ELSE /\ stopped' = TRUE
            /\ UNCHANGED <<isPlaying, intervalId, intervals, mainGain, dryGain, wetGain, currentVolume,
                           nextNoteTime, currentGlobal16thStep, current16thStepInBar, composer,
                           requested>>
    /\ lastStep' = "other"
    /\ dispatched' = <<>>
    /\ UNCHANGED <<currentSeed, contextState, currentTime, resumePending, restartPending, storage,
                   written, generated, twin, rngVars, graphVars, padVars>>
    /\ quiet' = TRUE

Stop == StopCall

\* cleanup(): this.stop()
Cleanup == StopCall

(***************************************************************************)
(* setSeed, generateNewPatterns, setVolume, setBPM                         *)
(***************************************************************************)
\* what generateNewPatterns() writes: the composition and both step counters
Regenerate(seed) ==
    IF Throws(seed)
    THEN /\ composer' = ThrownPatterns(composer)
         /\ UNCHANGED <<currentGlobal16thStep, current16thStepInBar, generated, twin>>
    ELSE /\ composer' = GenNew(composer, seed)
         /\ currentGlobal16thStep' = 0
         /\ current16thStepInBar' = 0
         /\ generated' = <<Produced("patterns", composer')>>
         /\ twin' = TwinPatterns(seed, HasGenerated)

\* a variant of setSeed while playing that stops and sets no timeout
StopWithoutRestart ==
    /\ restartPending < MaxRestarts
    /\ StopBody
    /\ UNCHANGED <<restartPending, generated, twin>>

\* setSeed while playing: this.stop(); setTimeout(() => this.start(), 50)
RestartLater ==
    /\ restartPending < MaxRestarts
    /\ StopBody
    /\ restartPending' = restartPending + 1
    /\ UNCHANGED <<generated, twin>>

SetSeed(seed) ==
    /\ currentSeed' = seed
    /\ IF isPlaying
       THEN RestartLater
       ELSE /\ Regenerate(seed)
            /\ UNCHANGED <<isPlaying, intervalId, intervals, mainGain, dryGain, wetGain, currentVolume,
                           nextNoteTime, restartPending, stopped, requested>>
    /\ lastStep' = IF isPlaying THEN "reseed" ELSE IF Throws(seed) THEN "exception" ELSE "other"
    /\ dispatched' = <<>>
    /\ quiet' = FALSE
    /\ UNCHANGED <<contextState, currentTime, resumePending, storage, written, rngVars, graphVars, padVars>>

\* The timeout of setSeed fires: start() is called.
RestartTimeout ==
    /\ restartPending > 0
    /\ restartPending' = restartPending - 1
    /\ StartCall
    /\ UNCHANGED quiet

\* a variant of generateNewPatterns() that moves on to the other seed
GenerateNewPatternsReseeding ==
    /\ Regenerate(currentSeed)
    /\ currentSeed' = IF currentSeed = 5 THEN 33 ELSE 5
    /\ lastStep' = "other"
    /\ dispatched' = <<>>
    /\ UNCHANGED <<isPlaying, intervalId, currentVolume, mainGain, dryGain, wetGain,
                   nextNoteTime, browserVars, stopped, requested, written, rngVars, graphVars, padVars, quiet>>

\* a variant of generateNewPatterns() that ends playback as stop() does
GenerateNewPatternsStopping ==
    /\ Regenerate(currentSeed)
    /\ isPlaying' = FALSE
    /\ intervals' = IF intervalId # NullId THEN intervals \ {intervalId} ELSE intervals
    /\ intervalId' = NullId
    /\ lastStep' = "other"
    /\ dispatched' = <<>>
    /\ UNCHANGED <<currentVolume, currentSeed, mainGain, dryGain, wetGain, nextNoteTime,
                   contextState, currentTime, resumePending, restartPending, storage,
                   stopped, requested, written, rngVars, graphVars, padVars, quiet>>

\* generateNewPatterns() called from outside (the play buttons call it
\* before start(), the seed form after setSeed)
GenerateNewPatterns ==
    /\ Regenerate(currentSeed)
    /\ lastStep' = IF Throws(currentSeed) THEN "exception" ELSE "other"
    /\ dispatched' = <<>>
    /\ UNCHANGED <<isPlaying, intervalId, currentVolume, currentSeed, mainGain, dryGain, wetGain,
                   nextNoteTime, browserVars, stopped, requested, written, rngVars, graphVars, padVars, quiet>>

SetVolume(volume) ==
    /\ currentVolume' = ClampVolume(volume)
    /\ mainGain' = IF isPlaying THEN currentVolume' ELSE mainGain
    /\ storage' = <<toString(currentVolume')>>
    /\ requested' = <<[volume |-> volume, since |-> "set"]>>
    /\ written' = <<currentVolume'>>
    /\ lastStep' = "other"
    /\ dispatched' = <<>>
    /\ UNCHANGED <<isPlaying, intervalId, currentSeed, dryGain, wetGain, nextNoteTime,
                   currentGlobal16thStep, current16thStepInBar, composer, contextState, currentTime,
                   intervals, resumePending, restartPending, stopped, generated, twin, rngVars, graphVars, padVars, quiet>>

\* setBPM: the tempo (the delay time it retunes while playing is not held)
SetBPM(bpm) ==
    /\ composer' = [composer EXCEPT !.bpm = ClampBPM(bpm)]
    /\ lastStep' = "other"
    /\ dispatched' = <<>>
    /\ UNCHANGED <<isPlaying, intervalId, currentVolume, currentSeed, mainGain, dryGain, wetGain,
                   nextNoteTime, currentGlobal16thStep, current16thStepInBar, browserVars,
                   stopped, requested, written, generated, twin, rngVars, graphVars, padVars, quiet>>

(***************************************************************************)
(* Timers, the audio clock, page reload                                    *)
(***************************************************************************)
\* A registered interval fires: one call of scheduler().
Tick(id) ==
    /\ id \in intervals
    /\ \E s \in { scheduler([ composer |-> composer,
                              nextNoteTime |-> nextNoteTime,
                              currentGlobal16thStep |-> currentGlobal16thStep,
                              current16thStepInBar |-> current16thStepInBar,
                              dispatched |-> <<>>,
                              generated |-> generated,
                              twin |-> twin ],
                            currentSeed, currentTime, isPlaying) } :
          /\ composer' = s.composer
          /\ nextNoteTime' = s.nextNoteTime
          /\ currentGlobal16thStep' = s.currentGlobal16thStep
          /\ current16thStepInBar' = s.current16thStepInBar
          /\ dispatched' = s.dispatched
          /\ generated' = s.generated
          /\ twin' = s.twin
    /\ lastStep' = "scheduler"
    /\ UNCHANGED <<isPlaying, intervalId, currentVolume, currentSeed, mainGain, dryGain, wetGain,
                   browserVars, stopped, requested, written, rngVars, graphVars, padVars, quiet>>

\* The audio clock runs while the context does: quantum microseconds pass.
AdvanceClock(quantum, limit) ==
    /\ contextState = "running"
    /\ currentTime + quantum <= limit
    /\ currentTime' = currentTime + quantum
    /\ lastStep' = "other"
    /\ dispatched' = <<>>
    /\ UNCHANGED <<engineVars, contextState, intervals, resumePending, restartPending, storage,
                   stopped, requested, written, generated, twin, rngVars, graphVars, padVars, quiet>>

\* The page is loaded again: timers and pending calls are gone, the module
\* constructs a new engine; only localStorage is kept.
Reload(seeds, states, failures) ==
    /\ \E seed \in seeds, state \in states :
          \E e \in {NewEngine(seed, LoadedVolume(storage))} :
             /\ isPlaying' = e.isPlaying
             /\ intervalId' = e.intervalId
             /\ currentVolume' = e.currentVolume
             /\ currentSeed' = e.currentSeed
             /\ mainGain' = e.mainGain
             /\ dryGain' = e.dryGain
             /\ wetGain' = e.wetGain
             /\ nextNoteTime' = e.nextNoteTime
             /\ currentGlobal16thStep' = e.currentGlobal16thStep
             /\ current16thStepInBar' = e.current16thStepInBar
             /\ composer' = e.composer
             /\ contextState' = state
    /\ currentTime' = 0
    /\ intervals' = {}
    /\ resumePending' = 0
    /\ restartPending' = 0
    /\ lastStep' = "other"
    /\ stopped' = FALSE
    /\ dispatched' = <<>>
    /\ requested' = <<>>
    /\ generated' = <<>>
    /\ twin' = NoTwin
    /\ \E fails \in failures :
          /\ reverbNode' = createReverb(fails)
          /\ connections' = ConstructorConnections \cup ReverbConnections(createReverb(fails))
    /\ quiet' = FALSE
    /\ UNCHANGED <<storage, written, rngVars, padVars>>


(***************************************************************************)
(* Specifications.  Each lets the environment call the facade in any order *)
(* and differs in the inputs it draws and in how far the clock runs.       *)
(***************************************************************************)
\* The life cycle: every operation, one volume and one tempo, a short clock.
Init == FirstLoad(SeedChoices, {<<>>}, ContextStates, {FALSE})

Next ==
    \/ Start
    \/ ResumeResolved
    \/ ResumeRejected
    \/ Stop
    \/ Cleanup
    \/ \E seed \in SeedChoices : SetSeed(seed)
    \/ RestartTimeout
    \/ GenerateNewPatterns
    \/ \E volume \in {50} : SetVolume(volume)
    \/ \E bpm \in BpmInputs : SetBPM(bpm)
    \/ \E id \in intervals : Tick(id)
    \/ AdvanceClock(ClockQuantum, MaxClock)
    \/ Reload(SeedChoices, ContextStates, {FALSE})

Spec == Init /\ [][Next]_vars

\* The same, where a pending timeout does not stay pending for ever: it fires
\* (RestartTimeout) or the page is left (Reload).
TimeoutEnds == restartPending > 0 /\ restartPending' = restartPending - 1

LiveSpec == Spec /\ WF_restartPending(TimeoutEnds)

\* The volume: every stored item, every kind of setVolume argument, one seed.
VolumeInit == FirstLoad({5}, InitialItems, ContextStates, {FALSE})

VolumeNext ==
    \/ Start
    \/ ResumeResolved
    \/ ResumeRejected
    \/ Stop
    \/ \E seed \in {5} : SetSeed(seed)
    \/ RestartTimeout
    \/ \E volume \in VolumeInputs : SetVolume(volume)
    \/ \E id \in intervals : Tick(id)
    \/ AdvanceClock(ClockQuantum, MaxClock)
    \/ Reload({5}, ContextStates, {FALSE})

VolumeSpec == VolumeInit /\ [][VolumeNext]_vars

\* Playing: whole bars, with the clock running in long strides and a context
\* that is running from the start.
PlayInit == FirstLoad(SeedChoices, {<<>>}, ContextStates, {FALSE})

PlayNext ==
    \/ Start
    \/ Stop
    \/ \E seed \in SeedChoices : SetSeed(seed)
    \/ RestartTimeout
    \/ GenerateNewPatterns
    \/ \E volume \in {50} : SetVolume(volume)
    \/ \E id \in intervals : Tick(id)
    \/ AdvanceClock(PlayQuantum, MaxPlayClock)
    \/ Reload(SeedChoices, {"running"}, {FALSE})

PlaySpec == PlayInit /\ [][PlayNext]_vars

\* Composing: many seeds, a context that is running, start() and then the
\* timer alone.  The timer's period (25 ms) is far below the strides of the
\* clock, so the clock moves on only from a time at which the timer has fired;
\* it moves by a fixed stride or by the length of one bar at the tempo in use.
MaxComposerSeed == 40
ComposeQuantum == 2000000
MaxComposeClock == 44000000

ComposerSeeds == 0..MaxComposerSeed

BarLength(bpm) == StepsPerBar * secondsPer16thNote(bpm)

ComposeInit == FirstLoad(ComposerSeeds, {<<>>}, {"running"}, {FALSE})

ComposeNext ==
    \/ Start
    \/ \E id \in intervals : Tick(id)
    \/ lastStep = "scheduler" /\ AdvanceClock(ComposeQuantum, MaxComposeClock)
    \/ lastStep = "scheduler" /\ AdvanceClock(BarLength(composer.bpm), MaxComposeClock)

ComposeSpec == ComposeInit /\ [][ComposeNext]_vars

\* Reseeding: setSeed with a number and with NaN, on an engine that is idle or
\* playing, with a context that is running.
SeedInputs == {33, NaN}

SeedInit == FirstLoad({5}, {<<>>}, {"running"}, {FALSE})

SeedNext ==
    \/ Start
    \/ Stop
    \/ \E seed \in SeedInputs : SetSeed(seed)
    \/ RestartTimeout
    \/ GenerateNewPatterns
    \/ \E id \in intervals : Tick(id)
    \/ AdvanceClock(ClockQuantum, MaxClock)

SeedSpec == SeedInit /\ [][SeedNext]_vars

\* Timely callbacks: on a playing engine the clock moves on only from a time
\* at which the timer has fired, and by the timer's period or by the lookahead
\* window at most, so that consecutive callbacks are never further apart than
\* the window.
ScheduleInterval == 25000
MaxTimelyClock == 800000

TimelyInit == FirstLoad({5}, {<<>>}, {"running"}, {FALSE})

TimelyNext ==
    \/ Start
    \/ Stop
    \/ GenerateNewPatterns
    \/ \E bpm \in BpmInputs : SetBPM(bpm)
    \/ \E id \in intervals : Tick(id)
    \/ (~isPlaying \/ lastStep = "scheduler") /\ AdvanceClock(ScheduleInterval, MaxTimelyClock)
    \/ (~isPlaying \/ lastStep = "scheduler") /\ AdvanceClock(Lookahead, MaxTimelyClock)

TimelySpec == TimelyInit /\ [][TimelyNext]_vars

\* The reverb: createReverb() succeeds or fails at every page load, and the
\* engine is started, stopped and run through its first steps.
ReverbInit == FirstLoad({5}, {<<>>}, ContextStates, ReverbFailures)

ReverbNext ==
    \/ Start
    \/ ResumeResolved
    \/ ResumeRejected
    \/ Stop
    \/ GenerateNewPatterns
    \/ \E id \in intervals : Tick(id)
    \/ AdvanceClock(ClockQuantum, MaxClock)
    \/ Reload({5}, ContextStates, ReverbFailures)

ReverbSpec == ReverbInit /\ [][ReverbNext]_vars

(***************************************************************************)
(* A PRNG stream on its own: seededRandom(offset) under any seed setSeed   *)
(* may have stored, then calls of the closure.                             *)
(***************************************************************************)
RngInit ==
    /\ PageLoad(0, <<>>, "suspended", FALSE)
    /\ rngValue = 0
    /\ rngCalls = 0
    /\ padTargets = <<>>
    /\ padPrevious = <<>>
    /\ padLed = <<>>

\* const rng = this.seededRandom(seedIncrement), with this.currentSeed = seed
NewStream(seed, seedIncrement) ==
    /\ rngValue' = seededRandom(seed, seedIncrement)
    /\ rngCalls' = 0
    /\ UNCHANGED <<engineVars, browserVars, historyVars, graphVars, padVars>>

\* rng()
CallRng ==
    /\ rngCalls < MaxRngCalls
    /\ rngValue' = Draw(rngValue)
    /\ rngCalls' = rngCalls + 1
    /\ UNCHANGED <<engineVars, browserVars, historyVars, graphVars, padVars>>

RngNext ==
    \/ \E seed \in -MaxRngSeed..MaxRngSeed, seedIncrement \in -MaxRngSeed..MaxRngSeed :
          NewStream(seed, seedIncrement)
    \/ CallRng

RngSpec == RngInit /\ [][RngNext]_vars

(***************************************************************************)
(* voiceLeadPads on its own: any list of targets against any list of       *)
(* previous pitches.                                                       *)
(***************************************************************************)
MaxPadPitch == 2
MaxPadTones == 3

PadPitches == 0..MaxPadPitch

PadLists == UNION {[1..n -> PadPitches] : n \in 0..MaxPadTones}

VoiceInit ==
    /\ PageLoad(0, <<>>, "suspended", FALSE)
    /\ rngValue = 0
    /\ rngCalls = 0
    /\ padTargets \in PadLists
    /\ padPrevious \in PadLists
    /\ padLed = <<>>

\* const ledPadFrequencies = this.voiceLeadPads(padTargetFrequencies, this.prevPadFrequencies)
VoiceLead ==
    /\ padLed = <<>>
    /\ padLed' = <<voiceLeadPads(padTargets, padPrevious)>>
    /\ UNCHANGED <<padTargets, padPrevious, engineVars, browserVars, historyVars, rngVars, graphVars>>

VoiceNext == VoiceLead

VoiceSpec == VoiceInit /\ [][VoiceNext]_vars

(***************************************************************************)
(* Properties                                                              *)
(***************************************************************************)
\* C1: however two start() calls interleave, exactly one scheduler timer is
\* registered while the engine plays, and once stop() has returned none is.
C1_StartTwiceOneTimer ==
    /\ isPlaying => Cardinality(intervals) = 1
    /\ stopped => intervals = {}

\* C2: the engine is either idle (not playing, intervalId null, no scheduler
\* callback registered) or running (playing, exactly one scheduler callback
\* registered, the one intervalId holds).
C2_IdleOrRunning ==
    \/ ~isPlaying /\ intervalId = NullId /\ intervals = {}
    \/ isPlaying /\ intervalId # NullId /\ intervals = {intervalId}

\* C3: once stop() has returned and until start() next runs, no step dispatches
\* a note or a drum, whatever timer callback fires.
C3_NoDispatchAfterStop == stopped => dispatched = <<>>

\* a timer callback fired after stop(), with a step due inside the lookahead window
C3_TimerFiredAfterStop ==
    stopped /\ lastStep = "scheduler" /\ nextNoteTime < currentTime + Lookahead

\* The engine has just been started with the seed: it plays, both step
\* counters and barCount are 0, and what generateNewPatterns put out is what
\* a new engine given the seed puts out.
RestartedWith(seed) ==
    /\ isPlaying
    /\ currentSeed = seed
    /\ currentGlobal16thStep = 0
    /\ current16thStepInBar = 0
    /\ composer.barCount = 0
    /\ Len(generated) = 1
    /\ twin.seed = seed
    /\ generated = twin.generated

\* C4: setSeed(s) on a running engine leaves it idle; then, unless the seed is
\* set again or the page is left first, the engine is eventually running with
\* seed s, both step counters and barCount at 0 and the patterns of seed s;
\* and the first bar a running engine generates is bar 0 of its seed.
C4_ReseedRestarts ==
    /\ [](lastStep = "reseed" => ~isPlaying /\ intervalId = NullId)
    /\ \A seed \in SeedChoices :
          (lastStep = "reseed" /\ currentSeed = seed)
             ~> (RestartedWith(seed) \/ currentSeed # seed \/ ~HasGenerated)
    /\ [](isPlaying /\ Len(generated) >= 2
            => twin.seed = currentSeed /\ generated[2] = twin.generated[2])

\* setSeed(33) has just stopped an engine that was playing seed 5
C4_ReseededWhilePlaying ==
    lastStep = "reseed" /\ restartPending > 0 /\ currentSeed = 33 /\ twin.seed = 5

\* C5: a start() that has to wait for resume() changes nothing while it waits,
\* and when resume() fails the call is rejected and again nothing has changed:
\* isPlaying, intervalId, the gains, the step counters, nextNoteTime, the
\* composition and the registered timers are as before the call; the engine
\* is idle.
C5_RejectedStartChangesNothing ==
    /\ [][(resumePending' > resumePending \/ lastStep' = "rejection")
            => UNCHANGED <<engineVars, intervals>>]_vars
    /\ [](lastStep = "rejection" => ~isPlaying /\ intervalId = NullId /\ intervals = {})

\* start() has been rejected on an engine that holds the patterns of seed 33
C5_StartRejected == lastStep = "rejection" /\ currentSeed = 33 /\ HasGenerated

\* C6: whatever the engine did before (other seeds, stop/start cycles, volume
\* changes, earlier sessions), what generateNewPatterns and the bar generations
\* after it put out (key root, scale, tempo, chord roots, voicings, drum
\* patterns) is what a new engine given the same seed puts out.
C6_SameSeedSameMusic == generated = twin.generated

\* three bars have followed generateNewPatterns on an engine that had generated
\* before and whose volume had been set
C6_ReplayedAfterHistory == twin.used /\ Len(generated) >= 4 /\ requested # <<>>

\* C7: after every call of a PRNG stream its internal value lies in
\* 0..233279, so the call returns a value in [0, 1), for every integer seed
\* and every integer offset.
C7_DrawInUnitInterval == rngCalls > 0 => InUnitInterval(rngValue)

\* C8: getVolume() is always within [0, 1], and after setVolume(v) it is
\* max(0, min(1, v)).
C8_VolumeClamped ==
    /\ currentVolume \in 0..100
    /\ requested # <<>> =>
          currentVolume = (IF requested[1].volume < 0 THEN 0
                           ELSE IF requested[1].volume > 100 THEN 100
                           ELSE requested[1].volume)

\* setVolume(1.5) has stored 1
C8_ClampedFromAbove == requested # <<>> /\ requested[1].volume > 100 /\ currentVolume = 100

\* C9: stop() and start() leave the stored volume alone: after setVolume(v);
\* stop() the stored volume is still clamp(v) and the master gain is 0, after
\* setVolume(v); stop(); start() the stored volume is clamp(v) and the master
\* gain is that volume again; a running engine's master gain is always the
\* stored volume.
C9_VolumeSurvivesStopStart ==
    /\ isPlaying => mainGain = currentVolume
    /\ (requested # <<>> /\ requested[1].since = "stopped") =>
          /\ written = <<currentVolume>>
          /\ ~isPlaying => mainGain = 0
    /\ (requested # <<>> /\ requested[1].since = "restarted") =>
          /\ written = <<currentVolume>>
          /\ isPlaying => mainGain = written[1]

\* setVolume(0.5); stop(); start() has happened and the engine plays at 0.5
C9_RestartedAfterSetVolume ==
    /\ requested # <<>>
    /\ requested[1].since = "restarted"
    /\ requested[1].volume = 50
    /\ isPlaying
    /\ mainGain = 50

\* C10: only setVolume writes the stored item, every setVolume writes the
\* clamped volume, and a later engine starts with the last volume written;
\* where none was ever written it starts with the item it finds if that is a
\* number in [0, 1] and with 0.35 otherwise.
C10_VolumePersists ==
    /\ [][storage' # storage => requested' # <<>> /\ requested'[1].since = "set"]_vars
    /\ [](requested # <<>> => storage # <<>> /\ written # <<>>)
    /\ [](written # <<>> /\ requested # <<>> /\ requested[1].since = "set" => written = <<currentVolume>>)
    /\ [](written # <<>> /\ requested = <<>> => currentVolume = written[1])
    /\ [](written = <<>> =>
            /\ storage \in InitialItems
            /\ storage \in UnusableItems => currentVolume = DefaultVolume
            /\ storage \in UsableItems => currentVolume = 80)

\* a later session has started with the 0.5 an earlier one wrote
C10_LoadedWhatWasWritten == requested = <<>> /\ written = <<50>> /\ currentVolume = 50

\* C11: the tempo that generateNewPatterns produces lies within [50, 90],
\* whatever the seed.
C11_GeneratedBpmInRange ==
    \A i \in DOMAIN generated :
        generated[i].kind = "patterns" => generated[i].bpm \in 50..90

\* generateNewPatterns has run for a seed beyond those of the life cycle and
\* set a tempo other than the one the engine is constructed with
C11_TempoGenerated ==
    /\ currentSeed \notin SeedChoices
    /\ HasGenerated
    /\ generated[1].kind = "patterns"
    /\ generated[1].bpm = composer.bpm
    /\ composer.bpm # InitialComposer.bpm

\* The bass register of the earlier version of the engine, 40 Hz to 150 Hz, as
\* pitches: E1 (41.2 Hz) is the lowest note at or above 40 Hz and D3 (146.8 Hz)
\* the highest at or below 150 Hz.
BassRegisterFloor == 28
BassRegisterCeiling == 50

\* C12: whatever the key root, scale, scale degree, root-or-fifth choice and
\* octave choice, the frequency of the bass note of a bar lies within the bass
\* register, between its floor and its ceiling.
C12_BassWithinRegister ==
    \A i \in DOMAIN composer.currentBassNote :
        composer.currentBassNote[i].frequency \in BassRegisterFloor..BassRegisterCeiling

\* C13: the scale degree of bar k is the entry k mod L of the progression
\* template of length L: generateNewPatterns primes the first entry, the first
\* bar uses it without advancing, and the degrees repeat with period L.
C13_DegreeFollowsTemplate ==
    HasGenerated =>
        LET template == composer.progressionTemplate
            L == Len(template)
        IN /\ composer.barCount = 0 =>
                /\ composer.progressionIndex = 0
                /\ composer.currentScaleDegree = template[1]
           /\ composer.barCount > 0 =>
                /\ composer.progressionIndex = (composer.barCount - 1) % L
                /\ composer.currentScaleDegree = template[((composer.barCount - 1) % L) + 1]

\* the longest template has been played through and its first entry is in
\* use again
C13_TemplateWrapped ==
    /\ Len(composer.progressionTemplate) = 8
    /\ composer.barCount = 9
    /\ composer.progressionIndex = 0

\* the audio clock at the start() that the steps scheduled so far count from
StartedAt == nextNoteTime - StartDelay - currentGlobal16thStep * secondsPer16thNote(composer.bpm)

HitsAmong(pattern, steps) == {step \in steps : pattern[step + 1] > 0}

\* C15: after every generateNextBar the drum pattern is three arrays (kick,
\* snare, hi-hat) of exactly sixteen velocities in [0, 1] with the kick on
\* step 0 and the snare on steps 4 and 12, and it holds the hits of this bar
\* only: at most one syncopated kick, one ghost snare and three hi-hats off
\* the eighths, which is all that one generation writes into new arrays.
C15_DrumPatternShape ==
    composer.barCount > 0 =>
        LET drums == composer.currentDrumPattern
        IN /\ \A pattern \in {drums.kick, drums.snare, drums.hihat} :
                /\ Len(pattern) = 16
                /\ \A i \in 1..16 : pattern[i] \in 0..10
           /\ drums.kick[0 + 1] > 0
           /\ drums.snare[4 + 1] > 0
           /\ drums.snare[12 + 1] > 0
           /\ Cardinality(HitsAmong(drums.kick, {2, 3, 6, 7, 10, 11, 13, 14})) <= 1
           /\ HitsAmong(drums.kick, {1, 5, 9, 12, 15}) = {}
           /\ Cardinality(HitsAmong(drums.snare, 0..15)) <= 3
           /\ Cardinality(HitsAmong(drums.hihat, {1, 3, 5, 7, 9, 11, 13, 15})) <= 3

\* a later bar whose pattern lacks hits that the pattern before it had: a
\* ghost snare was generated in some bar and the current bar has none
C15_PatternReplaced ==
    /\ composer.barCount > 1
    /\ \E i \in DOMAIN generated :
          /\ generated[i].kind = "bar"
          /\ HitsAmong(generated[i].drums.snare, {7, 15}) # {}
    /\ HitsAmong(composer.currentDrumPattern.snare, {7, 15}) = {}
    /\ Len(composer.currentDrumPattern.hihat) = 16

\* Frequencies are held as pitches, the pitch p standing for the frequency
\* 440 * 2^((p - 69) / 12) Hz: a pitch among the MIDI pitches is a finite,
\* positive frequency between 8.2 Hz and 12.6 kHz.
FinitePositive(note) == note.frequency \in 0..127

\* C16: after every generateNextBar the bar holds one pad note for each tone
\* of the chord's voicing, hence at least one, and one bass note, each with a
\* finite positive frequency.
C16_PadAndBassPresent ==
    composer.barCount > 0 =>
        /\ Len(composer.currentPadNotes) = Len(composer.currentChord[1].intervals)
        /\ Len(composer.currentPadNotes) >= 1
        /\ \A i \in DOMAIN composer.currentPadNotes :
              /\ composer.currentPadNotes[i].instrument = "pad"
              /\ FinitePositive(composer.currentPadNotes[i])
        /\ Len(composer.currentBassNote) = 1
        /\ composer.currentBassNote[1].instrument = "bass"
        /\ FinitePositive(composer.currentBassNote[1])

\* a bar after the first, voice-led from a chord of fewer tones, with the
\* five pad notes of a five-tone voicing and its bass note
C16_FiveTonePad ==
    /\ composer.barCount > 1
    /\ Len(composer.currentChord[1].intervals) = 5
    /\ Len(composer.currentPadNotes) = 5
    /\ Len(composer.currentBassNote) = 1
    /\ \E i \in DOMAIN generated :
          /\ i = Len(generated) - 1
          /\ generated[i].kind = "bar"
          /\ Len(generated[i].voicing) < 5

\* C17: setSeed(NaN) does not raise and the NaN is ignored: getSeed() goes on
\* returning the numeric seed there was and the composition stays numeric.
C17_NaNSeedIgnored ==
    /\ currentSeed # NaN
    /\ composer.keyRootFreq # NaN
    /\ lastStep # "exception"

\* C18: only setSeed changes the seed of an engine: a step that changes what
\* getSeed() returns is a setSeed (or a page load, which constructs another
\* engine) and is no start(), stop(), cleanup(), setVolume(),
\* generateNewPatterns() or timer callback.
C18_OnlySetSeedChangesSeed ==
    [][currentSeed' # currentSeed =>
          /\ \/ \E seed \in SeedChoices : SetSeed(seed)
             \/ Reload(SeedChoices, ContextStates, {FALSE})
          /\ ~Start
          /\ ~ResumeResolved
          /\ ~RestartTimeout
          /\ ~Stop
          /\ ~Cleanup
          /\ ~GenerateNewPatterns
          /\ ~(\E volume \in VolumeInputs \cup {50} : SetVolume(volume))
          /\ ~(\E id \in intervals : Tick(id))]_vars

\* the seed is the one of the last generateNewPatterns, after setVolume(),
\* stop(), start() and a timer callback that generated a bar
C18_SeedKeptThroughCalls ==
    /\ HasGenerated
    /\ twin.seed = currentSeed
    /\ requested # <<>>
    /\ requested[1].since = "restarted"
    /\ lastStep = "scheduler"
    /\ Len(generated) >= 2

\* C19: generateNewPatterns() leaves the play state alone: isPlaying, the
\* scheduler timer (intervalId and the registered callbacks), the volume, in
\* the engine and in storage, and the seed are after the call what they were
\* before it, on an idle engine and on a running one.
C19_RegenerationKeepsPlayState ==
    [][GenerateNewPatterns =>
          UNCHANGED <<isPlaying, intervalId, intervals, currentVolume, mainGain, storage,
                      currentSeed>>]_vars

\* generateNewPatterns() has been called on a running engine after the
\* scheduler had moved on: the steps are back at 0, the next note time is not,
\* and the engine plays on with its timer
C19_RegeneratedWhileRunning ==
    /\ isPlaying
    /\ intervalId \in intervals
    /\ Len(generated) = 1
    /\ currentGlobal16thStep = 0
    /\ nextNoteTime > currentTime + StartDelay

\* C20: a timer callback on a running engine dispatches, one loop iteration
\* after the other, the step the engine stands at and the steps after it,
\* each at the next note time, which then moves on by one sixteenth note
\* (60 / bpm / 4 seconds) while the step moves on by 1 modulo 16.  The callback
\* ends with the next note time at or beyond the clock plus the lookahead, and
\* between callbacks a running engine's step and next note time change only
\* when generateNewPatterns sets the step back to 0: so from a start() to the
\* next stop() or generateNewPatterns() the steps go 0, 1, ..., 15, 0, ...,
\* none skipped or repeated, at strictly increasing times.
C20_StepsInOrder ==
    /\ [][lastStep' = "scheduler" =>
            /\ Len(dispatched') = currentGlobal16thStep' - currentGlobal16thStep
            /\ \A i \in DOMAIN dispatched' :
                  /\ dispatched'[i].step = (current16thStepInBar + (i - 1)) % 16
                  /\ dispatched'[i].time =
                        nextNoteTime + (i - 1) * secondsPer16thNote(composer'.bpm)
            /\ current16thStepInBar' = (current16thStepInBar + Len(dispatched')) % 16
            /\ nextNoteTime' = nextNoteTime + Len(dispatched') * secondsPer16thNote(composer'.bpm)
            /\ secondsPer16thNote(composer'.bpm) > 0
            /\ isPlaying => nextNoteTime' >= currentTime + Lookahead
            /\ ~isPlaying => dispatched' = <<>>]_vars
    /\ [][(lastStep' # "scheduler" /\ isPlaying /\ isPlaying') =>
            /\ nextNoteTime' = nextNoteTime
            /\ \/ current16thStepInBar' = current16thStepInBar
               \/ current16thStepInBar' = 0 /\ Len(generated') = 1]_vars

\* a timer callback has dispatched the last step of a bar and the first of
\* the next, the second bar since start()
C20_DispatchedAcrossBars ==
    /\ lastStep = "scheduler"
    /\ isPlaying
    /\ composer.barCount = 2
    /\ \E i \in DOMAIN dispatched :
          /\ dispatched[i].step = 15
          /\ i + 1 \in DOMAIN dispatched
          /\ dispatched[i + 1].step = 0
          /\ dispatched[i + 1].generatedBar
          /\ dispatched[i + 1].time > dispatched[i].time

\* C21: the bar counter goes up when the step in the bar wraps from 15 to 0
\* and at no other time, so while the sixteen steps of bar k (counted from 0
\* since the patterns were generated) are dispatched it is k: it is the
\* number of whole bars among the steps dispatched so far.
C21_BarCountIsBarsCompleted ==
    HasGenerated => composer.barCount = currentGlobal16thStep \div StepsPerBar

\* C22: where consecutive timer callbacks are never further apart than the
\* lookahead window, a callback dispatches every step at a time that is not
\* before the clock at the callback, and it misses none: the steps it
\* dispatches follow the step the engine stood at, one by one, and no step
\* due inside the window is left behind.
C22_DispatchedAheadOfClock ==
    [][lastStep' = "scheduler" =>
          /\ \A i \in DOMAIN dispatched' :
                /\ dispatched'[i].time >= currentTime
                /\ dispatched'[i].step = (current16thStepInBar + (i - 1)) % StepsPerBar
          /\ currentGlobal16thStep' = currentGlobal16thStep + Len(dispatched')
          /\ isPlaying => nextNoteTime' >= currentTime + Lookahead]_vars

\* a callback one full window after the one before it has dispatched the
\* fourth step since start(), due at the clock or later
C22_DispatchedOnTime ==
    /\ lastStep = "scheduler"
    /\ isPlaying
    /\ currentGlobal16thStep >= 4
    /\ dispatched # <<>>
    /\ dispatched[1].time >= currentTime
    /\ dispatched[1].time < currentTime + Lookahead

\* the notes of one instrument among those an event played
Voice(notes, instrument) == SelectSeq(notes, LAMBDA n : n.instrument = instrument)

\* the notes of a buffer whose quarter beat, or whose sixteenth step, is the step
DueOnBeat(notes, step) == SelectSeq(notes, LAMBDA n : n.targetBeatInBar * 4 = step)
DueOnStep(notes, step) == SelectSeq(notes, LAMBDA n : n.target16thStep = step)

\* what the synthesizer is given for each note of a buffer
AsPlayed(notes) == [i \in DOMAIN notes |-> NotePlayed(notes[i])]

\* the targets of a buffer's notes lie in the bar and differ from one another
DistinctBeats(notes) ==
    \A i, j \in DOMAIN notes :
        /\ notes[i].targetBeatInBar \in 0..3
        /\ i # j => notes[i].targetBeatInBar # notes[j].targetBeatInBar

DistinctSteps(notes) ==
    \A i, j \in DOMAIN notes :
        /\ notes[i].target16thStep \in 0..15
        /\ i # j => notes[i].target16thStep # notes[j].target16thStep

\* The steps of one callback belong to the bar that was in progress before it
\* (those before the callback's first step 0), to the bar in progress after
\* it (those from its last step 0 on) or, where the callback came so late
\* that it ran through whole bars, to a bar in between.
InBarBefore(events, i) == \A j \in 1..i : ~events[j].generatedBar
InLastBar(events, i) ==
    /\ \E j \in 1..i : events[j].generatedBar
    /\ \A j \in (i + 1)..Len(events) : ~events[j].generatedBar

C24_DroneDispatchedWhenChosen ==
    \A i \in DOMAIN dispatched :
        dispatched[i].generatedBar =>
            ((Voice(dispatched[i].notes, "atmosphere") # <<>>) <=> dispatched[i].atmosphereIsNew)

\* a kept drone is never started again (one half of C24)
C24_KeptDroneNotRestarted ==
    \A i \in DOMAIN dispatched :
        dispatched[i].generatedBar /\ Voice(dispatched[i].notes, "atmosphere") # <<>>
            => dispatched[i].atmosphereIsNew

\* a newly chosen drone is never left undispatched (the other half of C24)
C24_NewDroneDispatched ==
    \A i \in DOMAIN dispatched :
        dispatched[i].generatedBar /\ dispatched[i].atmosphereIsNew
            => Voice(dispatched[i].notes, "atmosphere") # <<>>

\* the nodes a signal at one of the nodes reaches along the connections
RECURSIVE Downstream(_, _)
Downstream(nodes, edges) ==
    LET next == nodes \cup {e[2] : e \in {x \in edges : x[1] \in nodes}}
    IN IF next = nodes THEN nodes ELSE Downstream(next, edges)

\* a signal put into the node reaches the output on a path that does not
\* pass the master gain
BypassesMasterGain(node, edges) ==
    /\ node # "mainGainNode"
    /\ "destination" \in Downstream({node}, {e \in edges : e[1] # "mainGainNode"})

\* C25: every sound source the scheduler creates (notes, drum hits, vinyl
\* crackle) reaches the audio output only through the master gain node: no
\* source of a dispatched step is connected to a node from which the output
\* is reached around the master gain.
C25_SourcesThroughMasterGain ==
    \A i \in DOMAIN dispatched :
        \A node \in dispatched[i].outputs : ~BypassesMasterGain(node, connections)

\* notes and drum hits, taken alone, do go through the master gain
C25_NotesAndDrumsThroughMasterGain ==
    /\ ~BypassesMasterGain(NoteOutput, connections)
    /\ ~BypassesMasterGain(DrumOutput, connections)
    /\ "destination" \in Downstream({"mainGainNode"}, connections)

\* C26: if the construction of the reverb fails, reverbNode is null, the delay
\* path and the reverb send are connected directly to the wet gain, no
\* connection touches a reverb, the wet gain is connected to the output and
\* the signal of the master gain reaches the output over the wet gain; and
\* the engine starts, stops and schedules as with a reverb: what it generates
\* is what a new engine given the same seed generates, and the notes and
\* drum hits it dispatches are connected to the master gain.
C26_ReverbFailureRoutedAround ==
    reverbNode = "null" =>
        /\ connections = ConstructorConnections
                            \cup { <<"delayFilterNode", "wetGain">>,
                                   <<"reverbSendGain", "wetGain">>,
                                   <<"wetGain", "destination">> }
        /\ \A e \in connections : e[1] # "reverbNode" /\ e[2] # "reverbNode"
        /\ "destination" \in Downstream({"mainGainNode"}, {e \in connections : e[1] # "dryGain"})
        /\ generated = twin.generated
        /\ \A i \in DOMAIN dispatched :
              dispatched[i].notes # <<>> \/ dispatched[i].drums # <<>>
                  => "mainGainNode" \in dispatched[i].outputs

\* an engine whose reverb failed was started and stopped before, plays, has
\* generated a bar and has dispatched notes
C26_PlayingWithoutReverb ==
    /\ reverbNode = "null"
    /\ isPlaying
    /\ twin.used
    /\ Len(generated) >= 2
    /\ \E i \in DOMAIN dispatched : dispatched[i].notes # <<>>

\* the playback clock, the chord and bar state and the pattern buffers
PlaybackState ==
    <<nextNoteTime, currentGlobal16thStep, current16thStepInBar, composer.barCount,
      composer.currentChord, composer.currentScaleDegree, composer.progressionIndex,
      composer.prevPadFrequencies,
      composer.currentPadNotes, composer.currentBassNote, composer.currentLeadMelodyNotes,
      composer.currentArpNotes, composer.currentElectricPianoNotes, composer.currentFluteNotes,
      composer.currentAtmosphereNote, composer.currentDrumPattern>>

\* C27: while the engine is running, the playback clock (nextNoteTime, the
\* step counters, barCount), the chord and bar state and the pattern buffers
\* are written only by the scheduler's timer callback: a step of a running
\* engine that changes any of them is a timer callback, a stop() or cleanup()
\* (or the page being left), and no other public operation.
C27_SchedulerIsSoleWriter ==
    [][isPlaying /\ PlaybackState' # PlaybackState =>
          \/ \E id \in intervals : Tick(id)
          \/ Stop
          \/ Cleanup
          \/ Reload(SeedChoices, ContextStates, {FALSE})]_vars

\* the sum of the absolute semitone movement of pairing the previous pitches
\* with the assigned ones in order
RECURSIVE Movement(_, _)
Movement(previous, assigned) ==
    IF previous = <<>> \/ assigned = <<>> THEN 0
    ELSE Abs(Head(previous) - Head(assigned)) + Movement(Tail(previous), Tail(assigned))

\* the pitches of a list with their multiplicities
PitchCount(list, pitch) == Cardinality({i \in DOMAIN list : list[i] = pitch})

IsPermutation(a, b) ==
    /\ Len(a) = Len(b)
    /\ \A i \in DOMAIN b : PitchCount(a, b[i]) = PitchCount(b, b[i])

Ascending(list) == \A i \in 1..(Len(list) - 1) : list[i] <= list[i + 1]

C29_IdleAfterLastStop == quiet => ~isPlaying /\ intervalId = NullId /\ intervals = {}

\* without a start() waiting and without a restart timeout pending, the
\* engine does stay idle after the last stop()
C29_IdleAfterLastStopNothingPending ==
    [][quiet /\ ~isPlaying /\ resumePending = 0 /\ restartPending = 0 /\ quiet'
          => ~isPlaying' /\ intervalId' = NullId]_vars

\* C30: in every reachable state, after any sequence of start, stop, setSeed,
\* generateNewPatterns and timer callbacks, current16thStepInBar is in 0..15
\* and equals currentGlobal16thStep mod 16.
C30_StepInBarIsGlobalStepInBar ==
    /\ current16thStepInBar \in 0..(StepsPerBar - 1)
    /\ current16thStepInBar = currentGlobal16thStep % StepsPerBar

\* an engine that had generated before plays in its second bar or later, past
\* the first step of the bar
C30_PastFirstBar ==
    /\ isPlaying
    /\ twin.used
    /\ currentGlobal16thStep > StepsPerBar
    /\ current16thStepInBar > 0

=============================================================================
